---- MODULE Spec2Model ----
(***************************************************************************)
(* Ensemble decision engine (backend/src/ai_orchestrator.py), signal       *)
(* validator (backend/src/utils/signal_validator.py), model registry       *)
(* (backend/src/database.py) and communication manager with its two        *)
(* bridges (backend/src/communication.py).                                 *)
(*                                                                         *)
(* Numbers in the unit interval (weights, confidences, thresholds) are     *)
(* integers in hundredths; a quotient is kept as an exact fraction        *)
(* [num, den], so float rounding is not modelled.  Time is in seconds.     *)
(***************************************************************************)
EXTENDS Integers, Sequences, FiniteSets, TLC

\* ------------------------------------------------------------------ bounds
MaxCalls == 2
MaxFreqCalls == 4
MaxTicks == 1
MaxAgentIds == 3
MaxScoreRuns == 1
MaxSwapCalls == 1
MaxMonitors == 2
MaxPredicts == 2
MaxHeartbeats == 3
MaxValidations == 4
HistoryPrefill == 99
MaxLoopTasks == 2

\* --------------------------------------------------------- program constants
Unit == 100
max_signal_history == 100
FrequencyWindow == 20
MaxSymbolSignals == 3
MinSignalGap == 60
SwapThreshold == 45
FreshnessWindow == 3600
DaySeconds == 86400

Names == {"technical", "sentiment", "risk_assessment"}
Symbols == {"EURUSD", "GBPUSD"}
ActionOrder == <<"BUY", "SELL", "HOLD">>
Actions == {"BUY", "SELL", "HOLD"}
RawActions == Actions \cup {"STRONG_BUY"}
ConfValues == {60, 90}
ThresholdValues == {50, 75}
CallIds == {1, 2}
SoloCalls == {1}
NoAgent == [id |-> 0, model_path |-> 0, version |-> 0, performance_score |-> 0]
Absent == "<absent>"

VARIABLES
  confidence_threshold,  \* settings.confidence_threshold
  registry,              \* model_registry table: row id -> row
  active_agents,         \* AIOrchestrator.active_agents: name -> Agent or NoAgent
  nextAgentId,           \* identity of the next Agent object constructed
  calls,                 \* get_ensemble_signal invocations: id -> frame
  callsStarted,          \* number of get_ensemble_signal invocations so far
  recent_signals,        \* SignalValidator.recent_signals
  audit,                 \* rows written to ai_performance by _log_signal
  now,                   \* wall clock, seconds
  ticks,                 \* number of clock advances so far
  running,               \* AIOrchestrator.running
  hs,                    \* _check_model_performance / _swap_model frame
  scoreRuns,             \* number of _update_performance_scores runs so far
  zmq,                   \* ZMQBridge: running, publisher, responder, context
  ws,                    \* WebSocketBridge: running, server, clients
  comm,                  \* CommunicationManager: active_bridge, failover_enabled, running
  monitors,              \* _health_monitor tasks: seconds/10 left to sleep, or Dead
  send,                  \* CommunicationManager.send_signal frame
  cond_age,              \* for how long the failover condition has held
  vote_in,               \* _weighted_vote under test: its arguments
  vote_out,              \* _weighted_vote under test: its result
  boot,                  \* last load_active_models: rows fetched, rows whose model loads
  score_run,             \* outcome of the last _update_performance_scores run
  agent_obj,             \* an Agent object used on its own: model, predict results
  hb,                    \* ZMQBridge._heartbeat_handler: task, samples, last reply
  idem,                  \* the risk model's response to its features; finished calls
  val,                   \* the last direct validate_signal call: arguments, verdict
  gathered,              \* call number -> outcomes of its predictions so far
  loops,                 \* background loop tasks of the orchestrator: alive, exited
  scored                 \* rows fetched by the last _update_performance_scores run

orchVars == <<confidence_threshold, registry, active_agents, nextAgentId, calls,
              callsStarted, recent_signals, audit, now, ticks, running, hs,
              scoreRuns>>
commVars == <<zmq, ws, comm, monitors, send, cond_age>>
voteVars == <<vote_in, vote_out>>
auxVars == <<boot, score_run, agent_obj, hb, idem, val, gathered, loops, scored>>
vars == <<orchVars, commVars, voteVars, auxVars>>

\* ------------------------------------------------------------ small helpers
Frac(n, d) == [num |-> n, den |-> d]
FracLess(a, b) == a.num * b.den < b.num * a.den
FracEq(a, b) == a.num * b.den = b.num * a.den
Min(a, b) == IF a < b THEN a ELSE b
Max(a, b) == IF a > b THEN a ELSE b
Range(s) == {s[i] : i \in 1..Len(s)}

RECURSIVE SeqSum(_)
SeqSum(s) == IF s = <<>> THEN 0 ELSE Head(s) + SeqSum(Tail(s))

LastN(s, n) == IF Len(s) <= n THEN s ELSE SubSeq(s, Len(s) - n + 1, Len(s))

\* ------------------------------------------------- AIOrchestrator._weighted_vote
\* An agent result is [agent, action, confidence, by]; `by` is the identity of
\* the Agent object whose predict() produced it.  `agents` is the live agent
\* map at the time of the vote.
AgentOf(agents, agent_name) ==
  IF agent_name \in DOMAIN agents THEN agents[agent_name] ELSE NoAgent

VoteAcc0 ==
  [votes |-> [a \in Actions |-> 0], total_weight |-> 0, confidences |-> <<>>,
   used |-> <<>>, raised |-> FALSE]

\* One iteration of the loop with the vote left unweighted.
VoteStepUnweighted(acc, result, agents) ==
  LET agent == AgentOf(agents, result.agent) IN
  IF agent.id = NoAgent.id THEN acc
  ELSE IF result.action \notin Actions THEN [acc EXCEPT !.raised = TRUE]
  ELSE [acc EXCEPT
          !.votes[result.action] = @ + Unit * result.confidence,
          !.total_weight = @ + agent.performance_score,
          !.confidences = Append(@, result.confidence),
          !.used = Append(@, [agent |-> result.agent, by |-> result.by,
                              weight_of |-> agent.id,
                              weight |-> agent.performance_score,
                              action |-> result.action,
                              confidence |-> result.confidence,
                              error |-> result.error])]

\* One iteration of the loop at lines 409-421.
VoteStep(acc, result, agents) ==
  LET agent == AgentOf(agents, result.agent) IN
  IF agent.id = NoAgent.id THEN acc
  ELSE IF result.action \notin Actions THEN [acc EXCEPT !.raised = TRUE]
  ELSE [acc EXCEPT
          !.votes[result.action] = @ + agent.performance_score * result.confidence,
          !.total_weight = @ + agent.performance_score,
          !.confidences = Append(@, result.confidence),
          !.used = Append(@, [agent |-> result.agent, by |-> result.by,
                              weight_of |-> agent.id,
                              weight |-> agent.performance_score,
                              action |-> result.action,
                              confidence |-> result.confidence,
                              error |-> result.error])]

RECURSIVE VoteLoop(_, _, _)
VoteLoop(acc, agent_results, agents) ==
  IF agent_results = <<>> \/ acc.raised THEN acc
  ELSE VoteLoop(VoteStep(acc, Head(agent_results), agents),
                Tail(agent_results), agents)

\* The normalisation left out.
VoteDenUnnormalized(total_weight) == Unit

\* votes[action] /= total_weight when total_weight > 0 (lines 424-426);
\* the denominator of every vote, in hundredths.
VoteDen(total_weight) == IF total_weight > 0 THEN total_weight ELSE Unit

\* max(votes, key=votes.get): the first key, in insertion order BUY, SELL,
\* HOLD, whose vote is maximal (line 429).
WinningAction(votes) ==
  LET best(i) == \A j \in 1..Len(ActionOrder) :
                    votes[ActionOrder[j]] <= votes[ActionOrder[i]]
      k == CHOOSE i \in 1..Len(ActionOrder) :
             best(i) /\ \A j \in 1..(i - 1) : ~best(j)
  IN ActionOrder[k]

\* The first confidence instead of the mean.
MeanConfidenceFirst(confidences) ==
  IF confidences # <<>> THEN Frac(Head(confidences), 1) ELSE Frac(0, 1)

\* np.mean(confidences) if confidences else 0.0 (line 430).
MeanConfidence(confidences) ==
  IF confidences # <<>> THEN Frac(SeqSum(confidences), Len(confidences))
  ELSE Frac(0, 1)

WeightedVote(agent_results, agents) ==
  LET acc == VoteLoop(VoteAcc0, agent_results, agents) IN
  [raised |-> acc.raised,
   action |-> WinningAction(acc.votes),
   confidence |-> MeanConfidence(acc.confidences),
   votes |-> [num |-> acc.votes, den |-> VoteDen(acc.total_weight)],
   total_weight |-> acc.total_weight,
   used |-> acc.used]

\* ------------------------------------------------------------ SignalValidator
\* A signal is [action, confidence, symbol, ...]; symbol = Absent when the dict
\* has no 'symbol' key, which is the case for every ensemble result built by
\* _weighted_vote.
SignalSymbol(signal) == IF signal.symbol = Absent THEN "None" ELSE signal.symbol
RecordSymbol(signal) == IF signal.symbol = Absent THEN "UNKNOWN" ELSE signal.symbol

ValidateBasicStructure(signal) == signal.action \in Actions

ValidateConfidence(signal, threshold) ==
  ~(signal.confidence.num < threshold * signal.confidence.den)

\* timedelta.seconds: the seconds component only, days dropped.
TimedeltaSeconds(d) == d % DaySeconds

ValidateSignalFrequency(signal, recent, t) ==
  LET sym == SignalSymbol(signal)
      recent_symbol_signals ==
        SelectSeq(LastN(recent, FrequencyWindow), LAMBDA s : s.symbol = sym)
      same == {i \in 1..Len(recent) : recent[i].symbol = sym}
  IN IF Len(recent_symbol_signals) >= MaxSymbolSignals THEN FALSE
     ELSE IF same = {} THEN TRUE
     ELSE LET last_signal == recent[CHOOSE i \in same : \A j \in same : j <= i]
              time_diff == TimedeltaSeconds(t - last_signal.timestamp)
          IN ~(time_diff < MinSignalGap)

\* The oldest entry kept and the newest dropped once the history is full.
RecordSignalDropsNewest(signal, recent, t, call_symbol) ==
  LET signal_record == [symbol |-> RecordSymbol(signal), action |-> signal.action,
                        confidence |-> signal.confidence, timestamp |-> t,
                        call_symbol |-> call_symbol]
      appended == Append(recent, signal_record)
  IN IF Len(appended) > max_signal_history
     THEN SubSeq(appended, 1, max_signal_history) ELSE appended

\* `call_symbol` is the symbol argument of the validate_signal call that
\* recorded the entry; the code does not store it (history field).
RecordSignal(signal, recent, t, call_symbol) ==
  LET signal_record == [symbol |-> RecordSymbol(signal), action |-> signal.action,
                        confidence |-> signal.confidence, timestamp |-> t,
                        call_symbol |-> call_symbol]
      appended == Append(recent, signal_record)
  IN IF Len(appended) > max_signal_history THEN Tail(appended) ELSE appended

\* validate_signal: the ordered gates; market, risk, volatility and spread
\* checks always pass.  Returns the verdict and the new history.
ValidateSignal(symbol, signal, recent, t, threshold) ==
  IF ~ValidateBasicStructure(signal) THEN [ok |-> FALSE, recent |-> recent]
  ELSE IF ~ValidateConfidence(signal, threshold) THEN [ok |-> FALSE, recent |-> recent]
  ELSE IF ~ValidateSignalFrequency(signal, recent, t) THEN [ok |-> FALSE, recent |-> recent]
  ELSE [ok |-> TRUE, recent |-> RecordSignal(signal, recent, t, symbol)]

\* Signals handed to validate_signal directly: with a symbol key or without,
\* above or below the confidence threshold, with a valid action or not.
ValidatorSignals ==
  {[action |-> "BUY", confidence |-> Frac(90, 1), symbol |-> "EURUSD"],
   [action |-> "BUY", confidence |-> Frac(60, 1), symbol |-> "EURUSD"],
   [action |-> "SELL", confidence |-> Frac(90, 1), symbol |-> "GBPUSD"],
   [action |-> "STRONG_BUY", confidence |-> Frac(90, 1), symbol |-> "GBPUSD"],
   [action |-> "BUY", confidence |-> Frac(90, 1), symbol |-> Absent]}

\* One validate_signal(symbol, signal) call made `d` seconds after the
\* previous event; the call has no point of suspension.
ValidateCall(symbol, signal, d) ==
  /\ val.n < MaxValidations
  /\ LET v == ValidateSignal(symbol, signal, recent_signals, now + d, confidence_threshold)
     IN /\ recent_signals' = v.recent
        /\ val' = [n |-> val.n + 1, symbol |-> symbol, signal |-> signal, ok |-> v.ok]
  /\ now' = now + d
  /\ UNCHANGED <<confidence_threshold, registry, active_agents, nextAgentId, calls,
                 callsStarted, audit, ticks, hs, scoreRuns, running,
                 commVars, voteVars, boot, score_run, agent_obj, hb, idem, gathered, loops, scored>>

\* ------------------------------------------------------------- Agent.predict
\* outcome.kind = "ok": the model produced (action, confidence);
\* outcome.kind = "error": an exception inside the try block (lines 66-74).
Predict(agent_name, by, outcome) ==
  IF outcome.kind = "ok"
  THEN [agent |-> agent_name, action |-> outcome.action,
        confidence |-> outcome.confidence, by |-> by, error |-> FALSE]
  ELSE [agent |-> agent_name, action |-> "HOLD", confidence |-> 0, by |-> by,
        error |-> TRUE]

PredictOutcomes ==
  [kind : {"ok"}, action : RawActions, confidence : ConfValues]
    \cup {[kind |-> "error", action |-> "HOLD", confidence |-> 0]}

\* An Agent object used directly.  predict() first loads the model when
\* self.model is unset (lines 45-46, outside the try block), then runs the
\* try block; load_ok = whether that load_model() returns.
PredictRaised == [kind |-> "raised", agent |-> Absent, action |-> Absent,
                  confidence |-> 0, reason |-> Absent]

AgentPredictCall(obj, agent_name, load_ok, outcome) ==
  IF obj.model = "none" /\ ~load_ok
  THEN [model |-> obj.model, result |-> PredictRaised]
  ELSE LET r == Predict(agent_name, 0, outcome) IN
       [model |-> "loaded",
        result |-> [kind |-> "returned", agent |-> r.agent, action |-> r.action,
                    confidence |-> r.confidence,
                    reason |-> IF r.error THEN "Error:" ELSE ""]]

\* agent.predict(data) on the Agent object
AgentPredict ==
  /\ Len(agent_obj.results) < MaxPredicts
  /\ \E load_ok \in BOOLEAN, outcome \in PredictOutcomes :
       LET r == AgentPredictCall(agent_obj, "technical", load_ok, outcome) IN
       agent_obj' = [model |-> r.model, results |-> Append(agent_obj.results, r.result)]
  /\ UNCHANGED <<orchVars, commVars, voteVars, boot, score_run, hb, idem, val, gathered, loops, scored>>

\* agent.load_model() on the Agent object (lines 34-41): the model is set
\* when the loader returns, the exception is re-raised otherwise.
AgentLoadModel ==
  /\ agent_obj.model = "none"
  /\ \E load_ok \in BOOLEAN :
       agent_obj' = [agent_obj EXCEPT !.model = IF load_ok THEN "loaded" ELSE @]
  /\ UNCHANGED <<orchVars, commVars, voteVars, boot, score_run, hb, idem, val, gathered, loops, scored>>

\* ------------------------------------------- AIOrchestrator.get_ensemble_signal
NameOrder == <<"technical", "sentiment", "risk_assessment">>
LiveNames(agents) == {n \in Names : agents[n].id # NoAgent.id}

\* The emptiness test skipped.
NoActiveAgentsIgnored(agents) == FALSE

\* if not self.active_agents (line 351)
NoActiveAgents(agents) == LiveNames(agents) = {}

\* tasks = [agent.predict(data) for agent in self.active_agents.values()]
TasksOf(agents) ==
  LET live == SelectSeq(NameOrder, LAMBDA n : agents[n].id # NoAgent.id)
  IN [i \in 1..Len(live) |-> [agent |-> live[i], by |-> agents[live[i]].id]]

ZeroVotes == [num |-> [a \in Actions |-> 0], den |-> 1]
NoRet == [kind |-> "none"]
\* The two early returns (lines 352-357, 377-382); reason is the sequence of
\* the " | "-separated fragments of the reason string.
EarlyReason(kind) ==
  IF kind = "no_agents" THEN <<"No active agents available">>
  ELSE <<"No valid agent predictions">>

EarlyRet(kind) ==
  [kind |-> kind, action |-> "HOLD", confidence |-> Frac(0, 1), votes |-> ZeroVotes,
   vote_action |-> "HOLD", below_threshold |-> FALSE, failed_validation |-> FALSE,
   used |-> <<>>, prior |-> 0, logged |-> FALSE, total_weight |-> 0,
   reason |-> EarlyReason(kind)]

\* " | ".join(reasons) of _weighted_vote: one fragment per counted result.
VoteReason(used) == [i \in 1..Len(used) |-> used[i].agent]

BelowFragment == "Confidence below threshold"
FailedFragment == "Failed signal validation"

\* The validator's fragment put in front of the confidence gate's.
GateReasonValidatorFirst(vote_reason, below, ok) ==
  vote_reason \o (IF ok THEN <<>> ELSE <<FailedFragment>>)
              \o (IF below THEN <<BelowFragment>> ELSE <<>>)

\* ensemble_result['reason'] after lines 388-395.
GateReason(vote_reason, below, ok) ==
  vote_reason \o (IF below THEN <<BelowFragment>> ELSE <<>>)
              \o (IF ok THEN <<>> ELSE <<FailedFragment>>)

\* Number of entries among the last 20 recorded whose validate_signal call was
\* for `symbol`.
PriorFor(symbol, recent) ==
  Len(SelectSeq(LastN(recent, FrequencyWindow), LAMBDA s : s.call_symbol = symbol))

\* The gates evaluated, but the vote's own action returned.
GateReturnsVoteAction(symbol, vote, recent, t, threshold) ==
  LET below == vote.confidence.num < threshold * vote.confidence.den
      gated == [action |-> IF below THEN "HOLD" ELSE vote.action,
                confidence |-> vote.confidence, symbol |-> Absent]
      v == ValidateSignal(symbol, gated, recent, t, threshold)
  IN [ret |-> [kind |-> "voted", action |-> vote.action,
               confidence |-> vote.confidence, votes |-> vote.votes,
               vote_action |-> vote.action, below_threshold |-> below,
               failed_validation |-> ~v.ok, used |-> vote.used,
               prior |-> PriorFor(symbol, recent), logged |-> FALSE,
               total_weight |-> vote.total_weight,
               reason |-> GateReason(VoteReason(vote.used), below, v.ok)],
      recent |-> v.recent]

\* Lines 387-395: confidence gate, then the validator.
Gate(symbol, vote, recent, t, threshold) ==
  LET below == vote.confidence.num < threshold * vote.confidence.den
      gated == [action |-> IF below THEN "HOLD" ELSE vote.action,
                confidence |-> vote.confidence, symbol |-> Absent]
      v == ValidateSignal(symbol, gated, recent, t, threshold)
  IN [ret |-> [kind |-> "voted",
               action |-> IF v.ok THEN gated.action ELSE "HOLD",
               confidence |-> vote.confidence, votes |-> vote.votes,
               vote_action |-> vote.action, below_threshold |-> below,
               failed_validation |-> ~v.ok, used |-> vote.used,
               prior |-> PriorFor(symbol, recent), logged |-> FALSE,
               total_weight |-> vote.total_weight,
               reason |-> GateReason(VoteReason(vote.used), below, v.ok)],
      recent |-> v.recent]

\* ------------------------------------------------------------ model registry
RowIds == 1..4
Row(n, p, v, s, st, u) ==
  [agent_name |-> n, model_path |-> p, version |-> v, performance_score |-> s,
   status |-> st, updated_at |-> u]

InitRegistries(W1, W3) ==
  {<<Row("technical", 1, 1, w1, "active", 0),
     Row("technical", 2, 2, 65, "inactive", 0),
     Row("technical", 3, 3, w3, "inactive", 0),
     Row("sentiment", 1, 1, 50, "active", 0)>> : w1 \in W1, w3 \in W3}

\* Two agents below the swap threshold, each with one better inactive entry.
PairRegistries ==
  {<<Row("technical", 1, 1, 30, "active", 0),
     Row("technical", 2, 2, 65, "inactive", 0),
     Row("sentiment", 1, 1, 40, "active", 0),
     Row("sentiment", 2, 2, 60, "inactive", 0)>>}

ActiveRows(reg, n) ==
  {r \in RowIds : reg[r].agent_name = n /\ reg[r].status = "active"}
ActiveCount(reg, n) == Cardinality(ActiveRows(reg, n))

\* All orderings of the row set S with non-increasing performance_score
\* (ORDER BY performance_score DESC) when desc, any ordering otherwise.
Orderings(reg, S, desc) ==
  {q \in [1..Cardinality(S) -> S] :
     /\ \A i, j \in DOMAIN q : i # j => q[i] # q[j]
     /\ desc => \A i, j \in DOMAIN q :
                  i < j => reg[q[i]].performance_score >= reg[q[j]].performance_score}

NewAgent(id, row) ==
  [id |-> id, model_path |-> row.model_path, version |-> row.version,
   performance_score |-> row.performance_score]

\* code sections without an await run without interleaving of the other
\* coroutines of the same event loop
InProcessFree == hs.pc # "iter"

\* ---------------------------------------------- AIOrchestrator.load_active_models
RECURSIVE LoadLoop(_, _, _, _, _)
LoadLoop(agents, reg, rows, k, id) ==
  IF k = 0 \/ rows = <<>> THEN agents
  ELSE LET row == reg[Head(rows)] IN
       LoadLoop([agents EXCEPT ![row.agent_name] = NewAgent(id, row)],
                reg, Tail(rows), k - 1, id + 1)

\* The first k active rows load; the (k+1)-th, if any, raises and the
\* exception handler at line 345 ends the loop.
LoadActiveModels(agents, reg, id, rows, k) == LoadLoop(agents, reg, rows, k, id)

\* ----------------------------------------------------- AIOrchestrator.start
\* Lines 299-312: a failed connect raises out of start(); otherwise the two
\* background tasks are created.
LoopsAfterStart(l, connected) ==
  IF connected THEN [l EXCEPT !.score = @ + 1, !.hotswap = @ + 1] ELSE l

\* Number of leading rows of `rows` whose model loads: the loop of
\* load_active_models is inside the try block, so the first load_model()
\* that raises ends it (handler at line 345).
RECURSIVE LoadedPrefix(_, _)
LoadedPrefix(rows, loadable) ==
  IF rows = <<>> \/ Head(rows) \notin loadable THEN 0
  ELSE 1 + LoadedPrefix(Tail(rows), loadable)

\* running = True, the database connection, load_active_models.  fetched =
\* the SELECT of the active rows returned; loadable = the rows whose
\* load_model() returns.  `reliable` are rows whose model is known to load
\* (with a reachable database when there is any).
Start(reliable) ==
  /\ InProcessFree
  /\ ~running
  /\ loops.score < MaxLoopTasks /\ loops.hotswap < MaxLoopTasks
  /\ running' = TRUE
  /\ \E rows \in Orderings(registry, {r \in RowIds : registry[r].status = "active"}, TRUE),
        fetched \in BOOLEAN,
        loadable \in SUBSET {r \in RowIds : registry[r].status = "active"} :
       LET k == IF fetched THEN LoadedPrefix(rows, loadable) ELSE 0 IN
       /\ ~fetched => loadable = {} /\ reliable = {}
       /\ fetched => \A r \in reliable : registry[r].status = "active" => r \in loadable
       /\ nextAgentId + k - 1 <= MaxAgentIds
       /\ active_agents' = LoadActiveModels(active_agents, registry, nextAgentId, rows, k)
       /\ nextAgentId' = nextAgentId + k
       /\ boot' = [rows |-> IF fetched THEN rows ELSE <<>>, loadable |-> loadable,
                   fetched |-> fetched]
       /\ \E connected \in (IF fetched THEN {TRUE} ELSE BOOLEAN) :
            loops' = LoopsAfterStart(loops, connected)
  /\ UNCHANGED <<confidence_threshold, registry, calls, callsStarted,
                 recent_signals, audit, now, ticks, hs, scoreRuns,
                 commVars, voteVars, score_run, agent_obj, hb, idem, val, gathered, scored>>

\* ---------------------------------------------------------------- _log_signal
\* The value types of signal_data (lines 443-450); "timestamp" holds
\* datetime.now().
SignalDataTypes ==
  [symbol |-> "str", timestamp |-> "datetime", ensemble_action |-> "str",
   ensemble_confidence |-> "float", agent_signals |-> "list", votes |-> "dict"]
JsonTypes == {"str", "float", "int", "bool", "list", "dict", "None"}

\* json.dumps (no default=) raises TypeError on any other type.
JsonDumpsRaises(types) == \E k \in DOMAIN types : types[k] \notin JsonTypes

\* Whether the ai_performance row is written: json.dumps is evaluated while
\* the arguments of cursor.execute are built; any exception is logged and
\* swallowed (line 466).
LogSignal(db_ok) == ~JsonDumpsRaises(SignalDataTypes) /\ db_ok

\* ------------------------------------------------------- get_ensemble_signal
\* Lines 351-368: the early return, or the tasks handed to asyncio.gather.
CallStart(c, symbol, limit) ==
  /\ InProcessFree
  /\ calls[c].pc = "idle"
  /\ callsStarted < limit
  /\ callsStarted' = callsStarted + 1
  /\ IF NoActiveAgents(active_agents)
     THEN calls' = [calls EXCEPT ![c] = [pc |-> "done", symbol |-> symbol,
                                         tasks |-> <<>>, ret |-> EarlyRet("no_agents"),
                                         n |-> callsStarted + 1,
                                         entry_len |-> Len(recent_signals)]]
     ELSE calls' = [calls EXCEPT ![c] = [pc |-> "gather", symbol |-> symbol,
                                         tasks |-> TasksOf(active_agents),
                                         ret |-> NoRet, n |-> callsStarted + 1,
                                         entry_len |-> Len(recent_signals)]]
  /\ UNCHANGED <<confidence_threshold, registry, active_agents, nextAgentId,
                 recent_signals, audit, now, ticks, hs, scoreRuns, running,
                 commVars, voteVars, auxVars>>

\* The history as it was when the call entered get_ensemble_signal.
HistoryAtEntry(recent, entry_len) == SubSeq(recent, 1, Min(entry_len, Len(recent)))

\* The history validate_signal works on (line 393): the shared validator's
\* list as it is when the call gets there; nothing suspends the call between
\* the end of the gather and its return.
HistoryAtValidation(recent, entry_len) == recent

\* Lines 370-400 for the results of `tasks`: vote, gates, audit log, return.
CallFinishWith(c, tasks, outcomes, db_ok) ==
  /\ InProcessFree
  /\ calls[c].pc = "gather"
  /\ LET valid_results == [i \in 1..Len(tasks) |->
                             Predict(tasks[i].agent, tasks[i].by, outcomes[i])]
         vote == WeightedVote(valid_results, active_agents)
         g == Gate(calls[c].symbol, vote,
                   HistoryAtValidation(recent_signals, calls[c].entry_len),
                   now, confidence_threshold)
     IN IF valid_results = <<>>
        THEN /\ calls' = [calls EXCEPT ![c].pc = "done", ![c].ret = EarlyRet("no_valid")]
             /\ UNCHANGED <<recent_signals, audit>>
        ELSE IF vote.raised
        THEN /\ calls' = [calls EXCEPT ![c].pc = "raised"]
             /\ UNCHANGED <<recent_signals, audit>>
        ELSE /\ calls' = [calls EXCEPT ![c].pc = "done",
                                       ![c].ret = [g.ret EXCEPT !.logged = LogSignal(db_ok)]]
             /\ recent_signals' = g.recent
             /\ audit' = IF LogSignal(db_ok) THEN audit + 1 ELSE audit
  /\ UNCHANGED <<confidence_threshold, registry, active_agents, nextAgentId,
                 callsStarted, now, ticks, hs, scoreRuns, running,
                 commVars, voteVars, boot, score_run, agent_obj, hb, val, loops, scored>>

\* asyncio.gather has returned: every task has its outcome.
CallFinishBody(c, Outcomes) ==
  \E outcomes \in [1..Len(calls[c].tasks) -> Outcomes], db_ok \in BOOLEAN :
    CallFinishWith(c, calls[c].tasks, outcomes, db_ok) /\ UNCHANGED gathered

CallFinish(c, Outcomes) == CallFinishBody(c, Outcomes) /\ UNCHANGED idem

\* One prediction task of call c ends (a decision, or predict's error
\* result); the gather keeps it until every task of the call has ended.
PredictDone(c, i, outcome) ==
  /\ calls[c].pc = "gather"
  /\ i \in 1..Len(calls[c].tasks)
  /\ i \notin DOMAIN gathered[calls[c].n]
  /\ gathered' = [gathered EXCEPT ![calls[c].n] = @ @@ (i :> outcome)]
  /\ UNCHANGED <<orchVars, commVars, voteVars, boot, score_run, agent_obj, hb, idem, val, loops, scored>>

\* The gather handing over as soon as one task has ended.
GatherFirstCompleted(tasks, results) == DOMAIN results # {}

\* await asyncio.gather(*tasks, return_exceptions=True), line 368: resumes
\* the call when every task has ended.
GatherDone(tasks, results) == DOMAIN results = 1..Len(tasks)

\* The k-th smallest member of a set of task indices.
NthIndex(S, k) == CHOOSE x \in S : Cardinality({y \in S : y < x}) = k - 1

\* Lines 370-400 on the results the gather returned.
CallFinishGathered(c) ==
  /\ calls[c].pc = "gather"
  /\ GatherDone(calls[c].tasks, gathered[calls[c].n])
  /\ LET results == gathered[calls[c].n]
         ended == DOMAIN results
         tasks == [k \in 1..Cardinality(ended) |-> calls[c].tasks[NthIndex(ended, k)]]
         outcomes == [k \in 1..Cardinality(ended) |-> results[NthIndex(ended, k)]]
     IN \E db_ok \in BOOLEAN : CallFinishWith(c, tasks, outcomes, db_ok)
  /\ UNCHANGED <<idem, gathered>>

\* _preprocess_risk_data lines 166-167: the hour of the wall clock and the
\* time-of-day feature (hundredths).
HourSeconds == 3600
DayHours == 24
Hour(t) == (t \div HourSeconds) % DayHours
TimeFactor(t) == IF 8 <= Hour(t) /\ Hour(t) <= 16 THEN 100 ELSE 50
TimeFactors == {50, 100}

\* A fitted risk model: its output for the feature vector of one fixed market
\* snapshot, by the time-of-day feature.
IdemOutcomes ==
  {[kind |-> "ok", action |-> "BUY", confidence |-> 90],
   [kind |-> "ok", action |-> "SELL", confidence |-> 90],
   [kind |-> "ok", action |-> "HOLD", confidence |-> 60]}
RiskModels == [TimeFactors -> IdemOutcomes]
NoIdem == [model |-> [f \in TimeFactors |-> [kind |-> "error", action |-> "HOLD",
                                              confidence |-> 0]],
           finished |-> <<>>]

\* A get_ensemble_signal call served by the risk agent alone, for the same
\* market snapshot every time; the finished call is kept with what it ran
\* from and what it returned.
CallFinishRisk(c) ==
  /\ LiveNames(active_agents) = {"risk_assessment"}
  /\ CallFinishBody(c, {idem.model[TimeFactor(now)]})
  /\ idem' = IF calls'[c].pc = "done"
             THEN [idem EXCEPT !.finished =
                     Append(@, [symbol |-> calls[c].symbol,
                                agents |-> active_agents,
                                history |-> recent_signals,
                                threshold |-> confidence_threshold,
                                action |-> calls'[c].ret.action,
                                confidence |-> calls'[c].ret.confidence])]
             ELSE idem

\* The caller has consumed the result (or the exception).
CallReturn(c) ==
  /\ calls[c].pc \in {"done", "raised"}
  /\ calls' = [calls EXCEPT ![c] = [pc |-> "idle", symbol |-> Absent,
                                      tasks |-> <<>>, ret |-> NoRet, n |-> 0,
                                      entry_len |-> 0]]
  /\ UNCHANGED <<confidence_threshold, registry, active_agents, nextAgentId,
                 callsStarted, recent_signals, audit, now, ticks, hs, scoreRuns, running,
                 commVars, voteVars, auxVars>>

\* ------------------------------------- AIOrchestrator._update_performance_scores
\* win_rate in percent, avg_pnl in currency units, result in hundredths:
\* (win_rate * 0.7) + (min(avg_pnl / 100, 1.0) * 0.3), then max(0, min(1, .)).
PerformanceScore(win_rate, avg_pnl) ==
  Max(0, Min(Unit, (7 * win_rate + 3 * Min(avg_pnl, 100)) \div 10))

MinTrades == 10
StatValues ==
  {[win_rate |-> 100, avg_pnl |-> -500, trade_count |-> 20],
   [win_rate |-> 50, avg_pnl |-> 50, trade_count |-> 20],
   [win_rate |-> 100, avg_pnl |-> 200, trade_count |-> 5]}

\* UPDATE model_registry SET performance_score, updated_at WHERE agent_name = n
UpdateScoreRows(reg, n, score, t) ==
  [r \in RowIds |-> IF reg[r].agent_name = n
                     THEN [reg[r] EXCEPT !.performance_score = score, !.updated_at = t]
                     ELSE reg[r]]

\* The loop at lines 499-521 over the first k rows of performance_data;
\* st = [reg, agents].
RECURSIVE ScoreLoop(_, _, _, _)
ScoreLoop(st, performance_data, k, t) ==
  IF k = 0 \/ performance_data = <<>> THEN st
  ELSE LET row == Head(performance_data)
           score == PerformanceScore(row.stat.win_rate, row.stat.avg_pnl)
           st2 == IF row.stat.trade_count >= MinTrades
                  THEN [reg |-> UpdateScoreRows(st.reg, row.agent_name, score, t),
                        agents |-> IF st.agents[row.agent_name].id # NoAgent.id
                                   THEN [st.agents EXCEPT
                                           ![row.agent_name].performance_score = score]
                                   ELSE st.agents]
                  ELSE st
       IN ScoreLoop(st2, Tail(performance_data), k - 1, t)

\* rows returned by the trailing-24h aggregate query
PerformanceData ==
  {<<>>} \cup {<<[agent_name |-> n, stat |-> x]>> : n \in Names, x \in StatValues}

\* k = Len(performance_data) + 1 stands for a run whose every statement and
\* the commit succeed; k <= Len: the k-th UPDATE (or, for k = Len, possibly the
\* commit) raises after k in-memory assignments... the UPDATEs of a failed
\* run are never committed.
UpdatePerformanceScoresWith(Data) ==
  /\ InProcessFree
  /\ scoreRuns < MaxScoreRuns
  /\ scoreRuns' = scoreRuns + 1
  /\ \E performance_data \in Data, k \in 0..2 :
       /\ k <= Len(performance_data) + 1
       /\ LET st == ScoreLoop([reg |-> registry, agents |-> active_agents],
                               performance_data, k, now)
          IN /\ active_agents' = st.agents
             /\ registry' = IF k = Len(performance_data) + 1 THEN st.reg ELSE registry
             /\ score_run' = IF k = Len(performance_data) + 1 THEN "ok" ELSE "failed"
             /\ scored' = performance_data
  /\ UNCHANGED <<confidence_threshold, nextAgentId, calls, callsStarted,
                 recent_signals, audit, now, ticks, hs, running,
                 commVars, voteVars, boot, agent_obj, hb, idem, val, gathered, loops>>

UpdatePerformanceScores == UpdatePerformanceScoresWith(PerformanceData)

\* ----------------------------------------- AIOrchestrator._check_model_performance
\* last_load / last_name: outcome and agent name of the most recent
\* new_agent.load_model() of a swap; last_db: outcome of the database
\* statements of the most recent loop iteration; old_rows / backup_id: the
\* rows active before the UPDATEs of the swap in progress and the row of
\* its backup.
HsIdle == [pc |-> "idle", todo |-> <<>>, agent_name |-> Absent, backup |-> 0,
           last_load |-> "none", last_name |-> Absent, last_db |-> "none",
           old_rows |-> {}, backup_id |-> 0]

\* status = 'active' AND performance_score < 0.45 AND updated_at > NOW() - 1 hour
Underperformers(reg, t) ==
  {r \in RowIds : /\ reg[r].status = "active"
                   /\ reg[r].performance_score < SwapThreshold
                   /\ reg[r].updated_at > t - FreshnessWindow}

\* The best inactive entry of the name, whatever its score.
BackupsAnyScore(reg, n, current_score) ==
  LET cand == {r \in RowIds : reg[r].agent_name = n /\ reg[r].status = "inactive"}
  IN {r \in cand : \A q \in cand : reg[q].performance_score <= reg[r].performance_score}

\* agent_name = n AND status = 'inactive' AND performance_score > current_score
\* ORDER BY performance_score DESC LIMIT 1
Backups(reg, n, current_score) ==
  LET cand == {r \in RowIds : /\ reg[r].agent_name = n
                               /\ reg[r].status = "inactive"
                               /\ reg[r].performance_score > current_score}
  IN {r \in cand : \A q \in cand : reg[q].performance_score <= reg[r].performance_score}

\* Lines 542-552: the SELECT of the underperformers (the query itself may raise).
HotswapCheck ==
  /\ hs.pc = "idle"
  /\ \E rows \in Orderings(registry, Underperformers(registry, now), FALSE) \cup {<<>>} :
       hs' = IF rows = <<>> THEN hs
             ELSE [hs EXCEPT
                     !.pc = "iter",
                     !.todo = [i \in 1..Len(rows) |->
                                 [agent_name |-> registry[rows[i]].agent_name,
                                  performance_score |-> registry[rows[i]].performance_score]]]
  /\ UNCHANGED <<confidence_threshold, registry, active_agents, nextAgentId, calls,
                 callsStarted, recent_signals, audit, now, ticks, scoreRuns, running,
                 commVars, voteVars, auxVars>>

\* The backup activated without the first UPDATE.
SwapRegistryKeepsOld(reg, n, version) ==
  [r \in RowIds |-> IF reg[r].agent_name = n /\ reg[r].version = version
                     THEN [reg[r] EXCEPT !.status = "active"] ELSE reg[r]]

\* The two UPDATEs and the commit of _swap_model, lines 582-597.
SwapRegistry(reg, n, version) ==
  LET deact == [r \in RowIds |-> IF reg[r].agent_name = n /\ reg[r].status = "active"
                                  THEN [reg[r] EXCEPT !.status = "inactive"] ELSE reg[r]]
  IN [r \in RowIds |-> IF deact[r].agent_name = n /\ deact[r].version = version
                        THEN [deact[r] EXCEPT !.status = "active"] ELSE deact[r]]

HsAfter(h, todo) ==
  [h EXCEPT !.pc = IF todo = <<>> THEN "idle" ELSE "iter", !.todo = todo,
            !.agent_name = Absent, !.backup = 0, !.old_rows = {}, !.backup_id = 0]

\* One iteration of the loop at lines 554-573, up to the await in _swap_model.
\* db = "ok": statements and commit succeed; "swap_fails": an exception inside
\* _swap_model before the commit (caught at line 612, loop continues);
\* "select_fails": the backup query raises (caught at line 575, loop ends).
HotswapIter ==
  /\ hs.pc = "iter"
  /\ LET row == Head(hs.todo)
         cands == Backups(registry, row.agent_name, row.performance_score)
     IN \E db \in {"ok", "swap_fails", "select_fails"} :
          IF db = "select_fails"
          THEN hs' = [HsAfter(hs, <<>>) EXCEPT !.last_db = db] /\ UNCHANGED registry
          ELSE IF cands = {}
          THEN /\ db = "ok"
               /\ hs' = [HsAfter(hs, Tail(hs.todo)) EXCEPT !.last_db = db]
               /\ UNCHANGED registry
          ELSE IF db = "swap_fails"
          THEN /\ hs' = [HsAfter(hs, Tail(hs.todo)) EXCEPT !.last_db = db]
               /\ UNCHANGED registry
          ELSE \E b \in cands :
                 /\ registry' = SwapRegistry(registry, row.agent_name, registry[b].version)
                 /\ hs' = [hs EXCEPT !.pc = "loading", !.todo = Tail(hs.todo),
                                     !.agent_name = row.agent_name,
                                     !.backup = registry[b], !.last_db = db,
                                     !.old_rows = ActiveRows(registry, row.agent_name),
                                     !.backup_id = b]
  /\ UNCHANGED <<confidence_threshold, active_agents, nextAgentId, calls,
                 callsStarted, recent_signals, audit, now, ticks, scoreRuns, running,
                 commVars, voteVars, auxVars>>

\* The new Agent put into the live map before its model has loaded.
SwapAgentAssignFirst(agents, agent_name, backup_model, id, loaded) ==
  [agents EXCEPT ![agent_name] = NewAgent(id, backup_model)]

\* Lines 599-608: the new Agent replaces the map entry only after
\* load_model() has returned; when it raises the map is left alone.
SwapAgent(agents, agent_name, backup_model, id, loaded) ==
  IF loaded THEN [agents EXCEPT ![agent_name] = NewAgent(id, backup_model)]
  ELSE agents

\* Lines 599-613: new_agent.load_model() returns or raises.
HotswapLoad ==
  /\ hs.pc = "loading"
  /\ nextAgentId <= MaxAgentIds
  /\ \E loaded \in BOOLEAN :
       /\ active_agents' = SwapAgent(active_agents, hs.agent_name, hs.backup,
                                     nextAgentId, loaded)
       /\ nextAgentId' = nextAgentId + 1
       /\ hs' = [HsAfter(hs, hs.todo) EXCEPT
                   !.last_load = IF loaded THEN "ok" ELSE "failed",
                   !.last_name = hs.agent_name]
  /\ UNCHANGED <<confidence_threshold, registry, calls, callsStarted,
                 recent_signals, audit, now, ticks, scoreRuns, running,
                 commVars, voteVars, auxVars>>

\* ------------------------------------------------ ModelRepository.switch_model
SwitchPaths == {7}
SwitchRegistry(reg, n, new_model_path, version, t) ==
  LET deact == [r \in RowIds |-> IF reg[r].agent_name = n /\ reg[r].status = "active"
                                  THEN [reg[r] EXCEPT !.status = "inactive"] ELSE reg[r]]
  IN [r \in RowIds |-> IF deact[r].agent_name = n
                        THEN [deact[r] EXCEPT !.status = "active",
                                              !.model_path = new_model_path,
                                              !.version = version, !.updated_at = t]
                        ELSE deact[r]]

\* Runs on its own pooled connection; get_cursor commits on success and rolls
\* back on an exception.
SwitchModel(n, new_model_path, version) ==
  /\ \E ok \in BOOLEAN :
       registry' = IF ok THEN SwitchRegistry(registry, n, new_model_path, version, now)
                   ELSE registry
  /\ UNCHANGED <<confidence_threshold, active_agents, nextAgentId, calls,
                 callsStarted, recent_signals, audit, now, ticks, hs, scoreRuns, running,
                 commVars, voteVars, auxVars>>

\* ------------------------------------------------------- background loops
\* The loop never looking at the flag.
LoopForever(flag) == TRUE

\* while self.running (lines 471, 530)
LoopCondition(flag) == flag

\* AIOrchestrator.stop (lines 314-319)
Stop ==
  /\ InProcessFree
  /\ running
  /\ running' = FALSE
  /\ UNCHANGED <<confidence_threshold, registry, active_agents, nextAgentId, calls,
                 callsStarted, recent_signals, audit, now, ticks, hs, scoreRuns,
                 commVars, voteVars, auxVars>>

\* _performance_monitoring_loop: a task whose sleep is over finds the flag
\* set and runs _update_performance_scores before it sleeps again.
ScoreLoopIter(Data) ==
  /\ loops.score > 0
  /\ LoopCondition(running)
  /\ UpdatePerformanceScoresWith(Data)

\* ... or finds the loop condition false and ends.
ScoreLoopExit ==
  /\ InProcessFree
  /\ loops.score > 0
  /\ ~LoopCondition(running)
  /\ loops' = [loops EXCEPT !.score = @ - 1, !.exited = @ \cup {"score"}]
  /\ UNCHANGED <<orchVars, commVars, voteVars, boot, score_run, agent_obj, hb, idem, val,
                 gathered, scored>>

\* _model_hotswap_loop: a task whose sleep is over finds the flag set and
\* runs _check_model_performance.
HotswapLoopIter ==
  /\ loops.hotswap > 0
  /\ LoopCondition(running)
  /\ HotswapCheck

\* ... or finds the loop condition false and ends; a task inside
\* _check_model_performance gets there after the check has returned.
HotswapLoopExit ==
  /\ hs.pc = "idle"
  /\ loops.hotswap > 0
  /\ ~LoopCondition(running)
  /\ loops' = [loops EXCEPT !.hotswap = @ - 1, !.exited = @ \cup {"hotswap"}]
  /\ UNCHANGED <<orchVars, commVars, voteVars, boot, score_run, agent_obj, hb, idem, val,
                 gathered, scored>>

\* ------------------------------------------------------------------- clock
\* No measurable time passes inside a section without an await.
Tick(d) ==
  /\ InProcessFree
  /\ ticks < MaxTicks
  /\ ticks' = ticks + 1
  /\ now' = now + d
  /\ UNCHANGED <<confidence_threshold, registry, active_agents, nextAgentId, calls,
                 callsStarted, recent_signals, audit, hs, scoreRuns, running,
                 commVars, voteVars, auxVars>>

\* =================================================== communication layer
Peers == {1, 2}
Bridges == {"zmq", "websocket"}
Other(b) == IF b = "zmq" THEN "websocket" ELSE "zmq"
health_check_interval == 30
TickSeconds == 10
IntervalTicks == health_check_interval \div TickSeconds
MonitorIds == 1..MaxMonitors
Dead == -1

\* ZMQBridge.is_healthy, WebSocketBridge.is_healthy
ZmqHealthy(z) == z.running /\ z.publisher # "none" /\ z.responder # "none"
WsHealthy(w) == w.running /\ w.server # "none"
Healthy(b, z, w) == IF b = "zmq" THEN ZmqHealthy(z) ELSE WsHealthy(w)

\* The premise of the failover property: the manager is running, the active
\* bridge is unhealthy, the other one is healthy.
FailoverDue(c, z, w) ==
  c.running /\ ~Healthy(c.active_bridge, z, w) /\ Healthy(Other(c.active_bridge), z, w)

\* cond_age after a step: reset when the condition does not hold, advanced by
\* the clock, capped.
AgeAfter(elapsed) ==
  cond_age' = IF FailoverDue(comm', zmq', ws')
              THEN Min(IntervalTicks + 1,
                       (IF FailoverDue(comm, zmq, ws) THEN cond_age ELSE 0) + elapsed)
              ELSE 0

\* ZMQBridge.start: running = True, then the sockets; how = "ok", or the call
\* that raises.  context.socket raises once the context has been terminated.
ZmqStartOutcomes(z) ==
  IF z.context = "terminated" THEN {"socket_raises"}
  ELSE {"ok", "publisher_bind_raises", "responder_bind_raises"}

ZmqStart(z, how) ==
  IF how = "socket_raises" THEN [z EXCEPT !.running = TRUE]
  ELSE IF how = "publisher_bind_raises"
  THEN [z EXCEPT !.running = TRUE, !.publisher = "open"]
  ELSE [z EXCEPT !.running = TRUE, !.publisher = "open", !.responder = "open"]

\* ZMQBridge.stop
ZmqStop(z) ==
  [running |-> FALSE,
   publisher |-> IF z.publisher = "none" THEN "none" ELSE "closed",
   responder |-> IF z.responder = "none" THEN "none" ELSE "closed",
   context |-> "terminated"]

\* WebSocketBridge.start: how = "ok" or "serve_raises"
WsStart(w, how) ==
  IF how = "ok" THEN [w EXCEPT !.running = TRUE, !.server = "open"]
  ELSE [w EXCEPT !.running = TRUE]

\* WebSocketBridge.stop
WsStop(w) ==
  [w EXCEPT !.running = FALSE,
            !.server = IF w.server = "none" THEN "none" ELSE "closed",
            !.clients = {}]

\* ZMQBridge.send_signal: sent = whether publisher.send returned (an open
\* socket may still raise; a closed one always does).
ZmqSendSignal(z, sent) ==
  IF z.publisher = "none" \/ ~z.running THEN [ok |-> FALSE, delivered |-> 0]
  ELSE IF z.publisher = "open" /\ sent THEN [ok |-> TRUE, delivered |-> 1]
  ELSE [ok |-> FALSE, delivered |-> 0]

\* WebSocketBridge._send_to_client for every client; `failing` are the clients
\* whose send raises.  Every task returns None, whether its send raised or not.
SendResults(clients, failing) == [p \in clients |-> "None"]
SuccessfulSends(results) == Cardinality({p \in DOMAIN results : results[p] = "None"})

\* _send_to_client's exception handler (lines 234-238): the peers for which
\* on_client_disconnected is awaited.
Notified(w, failing) == IF w.on_client_disconnected = "set" THEN failing ELSE {}

\* Any failed send empties the peer set.
BroadcastSignalDropsAll(w, failing) ==
  IF ~w.running \/ w.clients = {}
  THEN [count |-> 0, clients |-> w.clients, delivered |-> 0, sent_to |-> {},
        notified |-> {}]
  ELSE [count |-> SuccessfulSends(SendResults(w.clients, failing)),
        clients |-> IF failing = {} THEN w.clients ELSE {},
        delivered |-> Cardinality(w.clients \ failing),
        sent_to |-> w.clients,
        notified |-> Notified(w, failing)]

\* WebSocketBridge.broadcast_signal: the return value, the clients left, the
\* number of peers the message actually went out to, the peers a send was
\* started for and the peers a disconnect notification was fired for.
BroadcastSignal(w, failing) ==
  IF ~w.running \/ w.clients = {}
  THEN [count |-> 0, clients |-> w.clients, delivered |-> 0, sent_to |-> {},
        notified |-> {}]
  ELSE [count |-> SuccessfulSends(SendResults(w.clients, failing)),
        clients |-> w.clients \ failing,
        delivered |-> Cardinality(w.clients \ failing),
        sent_to |-> w.clients,
        notified |-> Notified(w, failing)]

\* One attempt of send_signal on bridge b.
Attempt(b, z, w, sent, failing) ==
  IF b = "zmq"
  THEN LET r == ZmqSendSignal(z, sent)
       IN [bridge |-> b, ok |-> r.ok, delivered |-> r.delivered, clients |-> w.clients,
           rec |-> [bridge |-> b, ok |-> r.ok, delivered |-> r.delivered,
                    count |-> IF r.ok THEN 1 ELSE 0,
                    clients_before |-> w.clients, failing |-> {},
                    clients_after |-> w.clients, sent_to |-> {}, notified |-> {}]]
  ELSE LET r == BroadcastSignal(w, failing)
       IN [bridge |-> b, ok |-> r.count > 0, delivered |-> r.delivered,
           clients |-> r.clients,
           rec |-> [bridge |-> b, ok |-> r.count > 0, delivered |-> r.delivered,
                    count |-> r.count,
                    clients_before |-> w.clients,
                    failing |-> IF r.sent_to = {} THEN {} ELSE failing,
                    clients_after |-> r.clients, sent_to |-> r.sent_to,
                    notified |-> r.notified]]

SendIdle == [pc |-> "idle", entry_active |-> Absent, failover |-> FALSE,
             attempts |-> <<>>, ret |-> FALSE]

\* ZMQBridge.start line 53: once both sockets are bound the heartbeat handler
\* task is created on the new responder.
HeartbeatTaskAfterStart(h, how) ==
  IF how = "ok" THEN [h EXCEPT !.task = "recv", !.rep = "ready"] ELSE h

\* CommunicationManager.start
CommStart ==
  /\ \E hz \in ZmqStartOutcomes(zmq), hw \in {"ok", "serve_raises"} :
       /\ zmq' = ZmqStart(zmq, hz)
       /\ ws' = IF hz = "ok"
                THEN [WsStart(ws, hw) EXCEPT
                        !.on_client_disconnected = IF hw = "ok" THEN "set" ELSE @]
                ELSE ws
       /\ IF hz = "ok" /\ hw = "ok"
          THEN \E m \in MonitorIds :
                 /\ monitors[m] = Dead
                 /\ \A k \in MonitorIds : k < m => monitors[k] # Dead
                 /\ monitors' = [monitors EXCEPT ![m] = 0]
          ELSE UNCHANGED monitors
       /\ hb' = HeartbeatTaskAfterStart(hb, hz)
  /\ comm' = [comm EXCEPT !.running = TRUE]
  /\ UNCHANGED <<send, orchVars, voteVars, boot, score_run, agent_obj, idem, val, gathered, loops, scored>>
  /\ AgeAfter(0)

\* CommunicationManager.stop
CommStop ==
  /\ comm' = [comm EXCEPT !.running = FALSE]
  /\ zmq' = ZmqStop(zmq)
  /\ ws' = WsStop(ws)
  /\ UNCHANGED <<monitors, send, orchVars, voteVars, auxVars>>
  /\ AgeAfter(0)

\* stop() called on one bridge object directly
BridgeStop(b) ==
  /\ IF b = "zmq" THEN zmq' = ZmqStop(zmq) /\ UNCHANGED ws
                  ELSE ws' = WsStop(ws) /\ UNCHANGED zmq
  /\ UNCHANGED <<comm, monitors, send, orchVars, voteVars, auxVars>>
  /\ AgeAfter(0)

\* WebSocketBridge._handle_client: a peer connects / its connection ends
ClientConnect(p) ==
  /\ ws.server = "open"
  /\ p \notin ws.clients
  /\ ws' = [ws EXCEPT !.clients = @ \cup {p}]
  /\ UNCHANGED <<zmq, comm, monitors, send, orchVars, voteVars, auxVars>>
  /\ AgeAfter(0)

ClientDisconnect(p) ==
  /\ p \in ws.clients
  /\ ws' = [ws EXCEPT !.clients = @ \ {p}]
  /\ UNCHANGED <<zmq, comm, monitors, send, orchVars, voteVars, auxVars>>
  /\ AgeAfter(0)

SetFailover(enabled) ==
  /\ comm.failover_enabled # enabled
  /\ comm' = [comm EXCEPT !.failover_enabled = enabled]
  /\ UNCHANGED <<zmq, ws, monitors, send, orchVars, voteVars, auxVars>>
  /\ AgeAfter(0)

\* CommunicationManager.send_signal, lines 357-363 / 365-371 up to the await
\* of the second attempt.
SendStart ==
  /\ send.pc = "idle"
  /\ \E sent \in BOOLEAN, failing \in SUBSET ws.clients :
       LET a == Attempt(comm.active_bridge, zmq, ws, sent, failing) IN
       /\ ws' = [ws EXCEPT !.clients = a.clients]
       /\ IF ~a.ok /\ comm.failover_enabled
          THEN /\ comm' = [comm EXCEPT !.active_bridge = Other(a.bridge)]
               /\ send' = [pc |-> "retry", entry_active |-> comm.active_bridge,
                           failover |-> TRUE,
                           attempts |-> <<a.rec>>,
                           ret |-> FALSE]
          ELSE /\ UNCHANGED comm
               /\ send' = [pc |-> "done", entry_active |-> comm.active_bridge,
                           failover |-> comm.failover_enabled,
                           attempts |-> <<a.rec>>,
                           ret |-> a.ok]
  /\ UNCHANGED <<zmq, monitors, orchVars, voteVars, auxVars>>
  /\ AgeAfter(0)

\* The retry on the other bridge, lines 362 / 370.
SendRetry ==
  /\ send.pc = "retry"
  /\ \E sent \in BOOLEAN, failing \in SUBSET ws.clients :
       LET a == Attempt(Other(send.attempts[1].bridge), zmq, ws, sent, failing) IN
       /\ ws' = [ws EXCEPT !.clients = a.clients]
       /\ send' = [send EXCEPT !.pc = "done",
                               !.attempts = Append(@, a.rec),
                               !.ret = a.ok]
  /\ UNCHANGED <<zmq, comm, monitors, orchVars, voteVars, auxVars>>
  /\ AgeAfter(0)

SendReturn ==
  /\ send.pc = "done"
  /\ send' = SendIdle
  /\ UNCHANGED <<zmq, ws, comm, monitors, orchVars, voteVars, auxVars>>
  /\ AgeAfter(0)

\* The other bridge taken whenever the active one is unhealthy.
MonitorDecisionIgnoresOther(active_bridge, zmq_healthy, ws_healthy) ==
  IF active_bridge = "zmq" /\ ~zmq_healthy THEN "websocket"
  ELSE IF active_bridge = "websocket" /\ ~ws_healthy THEN "zmq"
  ELSE active_bridge

\* The failover decision of one _health_monitor iteration, lines 379-389.
MonitorDecision(active_bridge, zmq_healthy, ws_healthy) ==
  IF active_bridge = "zmq" /\ ~zmq_healthy /\ ws_healthy THEN "websocket"
  ELSE IF active_bridge = "websocket" /\ ~ws_healthy /\ zmq_healthy THEN "zmq"
  ELSE active_bridge

\* One pass of the loop of _health_monitor after its sleep has expired: the
\* task ends when running is false, otherwise it checks and sleeps again.
MonitorIter(m) ==
  /\ monitors[m] = 0
  /\ IF comm.running
     THEN /\ comm' = [comm EXCEPT !.active_bridge =
                        MonitorDecision(comm.active_bridge, ZmqHealthy(zmq), WsHealthy(ws))]
          /\ monitors' = [monitors EXCEPT ![m] = IntervalTicks]
     ELSE /\ monitors' = [monitors EXCEPT ![m] = Dead]
          /\ UNCHANGED comm
  /\ UNCHANGED <<zmq, ws, send, orchVars, voteVars, auxVars>>
  /\ AgeAfter(0)

\* TickSeconds pass; a monitor whose sleep has expired runs before more time
\* passes.
CommTick ==
  /\ \A m \in MonitorIds : monitors[m] # 0
  /\ monitors' = [m \in MonitorIds |-> IF monitors[m] = Dead THEN Dead ELSE monitors[m] - 1]
  /\ UNCHANGED <<zmq, ws, comm, send, orchVars, voteVars, auxVars>>
  /\ AgeAfter(1)

CommInit ==
  /\ zmq = [running |-> FALSE, publisher |-> "none", responder |-> "none",
            context |-> "live"]
  /\ ws = [running |-> FALSE, server |-> "none", clients |-> {},
           on_client_disconnected |-> "none"]
  /\ comm = [active_bridge |-> "zmq", failover_enabled |-> TRUE, running |-> FALSE]
  /\ monitors = [m \in MonitorIds |-> Dead]
  /\ send = SendIdle
  /\ cond_age = 0

\* ================================================ ZMQBridge heartbeat channel
\* Times on this channel are in milliseconds (the code uses nanoseconds and
\* divides by 1e6).
max_latency_samples == 100
LatencyValues == {2, 6}
NonNumeric == -1
ServerTime(t) == t * 1000

\* What the peer put on the wire: a heartbeat stamped `lag` ms ago, a
\* heartbeat without client_timestamp, one whose client_timestamp is not a
\* number, or bytes that are not a heartbeat at all.
HeartbeatMessages ==
  [kind : {"timed"}, lag : LatencyValues]
    \cup [kind : {"untimed", "bad_timestamp", "garbage"}, lag : {0}]

\* MessageSerializer.deserialize_heartbeat
DeserializeHeartbeat(msg, t) ==
  IF msg.kind = "garbage"
  THEN [type |-> "error", message |-> "Heartbeat deserialization failed"]
  ELSE IF msg.kind = "untimed" THEN [type |-> "heartbeat"]
  ELSE IF msg.kind = "bad_timestamp"
  THEN [type |-> "heartbeat", client_timestamp |-> NonNumeric]
  ELSE [type |-> "heartbeat", client_timestamp |-> ServerTime(t) - msg.lag]

\* dict.get(key, default)
Get(d, key, default) == IF key \in DOMAIN d THEN d[key] ELSE default

\* MessageSerializer.serialize_heartbeat: not called by the handler.
SerializeHeartbeat(heartbeat, t) ==
  [type |-> "heartbeat_response",
   status |-> Get(heartbeat, "status", "unknown"),
   server_time |-> Get(heartbeat, "server_time", 0),
   avg_latency_ms |-> Get(heartbeat, "avg_latency_ms", Frac(0, 1)),
   timestamp |-> t]

\* MessageSerializer.serialize_response: the five keys it copies.
SerializeResponse(response, t) ==
  [type |-> "response",
   status |-> Get(response, "status", "unknown"),
   message |-> Get(response, "message", ""),
   data |-> Get(response, "data", "{}"),
   timestamp |-> t]

\* Lines 108-115: the sample list after one request.
LatencySamplesAfter(samples, heartbeat_data, t) ==
  IF "client_timestamp" \in DOMAIN heartbeat_data
  THEN LET appended == Append(samples, ServerTime(t) - heartbeat_data.client_timestamp)
       IN IF Len(appended) > max_latency_samples THEN Tail(appended) ELSE appended
  ELSE samples

\* Line 121
AvgLatency(samples) ==
  IF samples = <<>> THEN Frac(0, 1) ELSE Frac(SeqSum(samples), Len(samples))

\* Lines 118-123
HeartbeatResponse(samples, t) ==
  [status |-> "OK", server_time |-> ServerTime(t),
   avg_latency_ms |-> AvgLatency(samples), timestamp |-> t]

\* One pass of the loop body from the completed recv to the completed send.
\* A client_timestamp that is not a number raises at line 109: nothing is
\* sent and the task sleeps in the handler of line 137.
HeartbeatHandle(msg) ==
  /\ hb.task = "recv"
  /\ hb.rep = "ready"
  /\ zmq.responder = "open"
  /\ hb.handled < MaxHeartbeats
  /\ LET heartbeat_data == DeserializeHeartbeat(msg, now)
         raises == /\ "client_timestamp" \in DOMAIN heartbeat_data
                   /\ heartbeat_data.client_timestamp = NonNumeric
         samples == LatencySamplesAfter(hb.latency_samples, heartbeat_data, now)
         response == HeartbeatResponse(samples, now)
     IN IF raises
        THEN hb' = [hb EXCEPT !.task = "sleep", !.rep = "must_send",
                              !.handled = @ + 1,
                              !.reply = [request |-> msg.kind, sent |-> FALSE]]
        ELSE hb' = [hb EXCEPT !.latency_samples = samples,
                              !.handled = @ + 1,
                              !.reply = [request |-> msg.kind, sent |-> TRUE,
                                         response |-> response,
                                         wire |-> SerializeResponse(response, now)]]
  /\ UNCHANGED <<orchVars, commVars, voteVars, boot, score_run, agent_obj, idem, val, gathered, loops, scored>>

\* The pending recv ends because stop() closed the responder: the task is
\* cancelled, or (where CancelledError is an Exception) sleeps in the handler
\* of line 137.
HeartbeatClosed ==
  /\ hb.task = "recv"
  /\ zmq.responder = "closed"
  /\ \E next \in {"dead", "sleep"} : hb' = [hb EXCEPT !.task = next]
  /\ UNCHANGED <<orchVars, commVars, voteVars, boot, score_run, agent_obj, idem, val, gathered, loops, scored>>

\* asyncio.sleep(1) is over: the loop condition of line 99.  A responder that
\* still owes a reply raises on the next recv, and the task sleeps again.
HeartbeatWake ==
  /\ hb.task = "sleep"
  /\ hb' = [hb EXCEPT !.task = IF ~zmq.running THEN "dead"
                               ELSE IF hb.rep = "must_send" THEN "sleep" ELSE "recv"]
  /\ hb' # hb
  /\ UNCHANGED <<orchVars, commVars, voteVars, boot, score_run, agent_obj, idem, val, gathered, loops, scored>>

\* ZMQBridge.start called on the bridge object itself
ZmqBridgeStart ==
  /\ \E hz \in ZmqStartOutcomes(zmq) :
       /\ zmq' = ZmqStart(zmq, hz)
       /\ hb' = HeartbeatTaskAfterStart(hb, hz)
  /\ UNCHANGED <<ws, comm, monitors, send, orchVars, voteVars, boot, score_run, agent_obj, idem, val, gathered, loops, scored>>
  /\ AgeAfter(0)

\* ================================================ _weighted_vote in isolation
VoteAgents == <<"A", "B", "C">>
WeightValues == {0, 50, 80}
NoWeight == -1
VoteConfValues == {0, 60, 90, 100}
NoResult == [action |-> Absent, confidence |-> 0]
ResultOptions == [action : Actions, confidence : VoteConfValues] \cup {NoResult}

\* The arguments of one _weighted_vote call: the live agent map (agent "C" may
\* be missing from it) and one result per agent that produced one.
VoteInput(opts, weights) ==
  LET agents == [n \in Range(VoteAgents) |->
                   LET i == CHOOSE k \in 1..Len(VoteAgents) : VoteAgents[k] = n IN
                   IF weights[n] = NoWeight THEN NoAgent
                   ELSE [id |-> i, model_path |-> i, version |-> 1,
                         performance_score |-> weights[n]]]
      present == SelectSeq(VoteAgents, LAMBDA n : opts[n] # NoResult)
  IN [agents |-> agents,
      results |-> [i \in 1..Len(present) |->
                     [agent |-> present[i], action |-> opts[present[i]].action,
                      confidence |-> opts[present[i]].confidence,
                      by |-> (CHOOSE k \in 1..Len(VoteAgents) : VoteAgents[k] = present[i]),
                      error |-> FALSE]]]

NoVoteInput == [agents |-> <<>>, results |-> <<>>]

VoteInputs ==
  {VoteInput(opts, weights) :
     opts \in [Range(VoteAgents) -> ResultOptions],
     weights \in {w \in [Range(VoteAgents) -> WeightValues \cup {NoWeight}] :
                    w["A"] # NoWeight /\ w["B"] # NoWeight}}

ApplyVote ==
  /\ vote_out = NoRet
  /\ vote_out' = WeightedVote(vote_in.results, vote_in.agents)
  /\ UNCHANGED <<vote_in, orchVars, commVars, auxVars>>

\* ------------------------------------------------------------ specification
NoLoops == [score |-> 0, hotswap |-> 0, exited |-> {}]
NoValidation == [n |-> 0, symbol |-> Absent, signal |-> NoResult, ok |-> FALSE]
NoReply == [request |-> "none"]
HbInit == [task |-> "none", rep |-> "ready", latency_samples |-> <<>>,
           handled |-> 0, reply |-> NoReply]
NoBoot == [rows |-> <<>>, loadable |-> {}, fetched |-> FALSE]
NewAgentObj == [model |-> "none", results |-> <<>>]
StartTime == 600
IdleCall == [pc |-> "idle", symbol |-> Absent, tasks |-> <<>>, ret |-> NoRet,
             n |-> 0, entry_len |-> 0]

InitCore(Thresholds, Registries, Inputs) ==
  /\ confidence_threshold \in Thresholds
  /\ registry \in Registries
  /\ active_agents = [n \in Names |-> NoAgent]
  /\ nextAgentId = 1
  /\ calls = [c \in CallIds |-> IdleCall]
  /\ callsStarted = 0
  /\ audit = 0
  /\ now = StartTime
  /\ ticks = 0
  /\ running = FALSE
  /\ hs = HsIdle
  /\ scoreRuns = 0
  /\ CommInit
  /\ vote_in \in Inputs
  /\ vote_out = NoRet
  /\ boot = NoBoot
  /\ score_run = "none"
  /\ agent_obj = NewAgentObj
  /\ hb = HbInit
  /\ val = NoValidation
  /\ gathered = [k \in 1..MaxCalls |-> <<>>]
  /\ loops = NoLoops
  /\ scored = <<>>

InitWith(Thresholds, Registries, Inputs) ==
  /\ InitCore(Thresholds, Registries, Inputs)
  /\ idem = NoIdem
  /\ recent_signals = <<>>

\* The ensemble engine: boot, get_ensemble_signal calls, the clock.
Init == InitWith(ThresholdValues, InitRegistries({30, 80}, {20}), {NoVoteInput})

Next ==
  \/ Start({})
  \/ \E c \in SoloCalls, symbol \in Symbols : CallStart(c, symbol, MaxCalls)
  \/ \E c \in SoloCalls : CallFinish(c, PredictOutcomes)
  \/ \E c \in SoloCalls : CallReturn(c)
  \/ \E d \in {30, 60} : Tick(d)

Spec == Init /\ [][Next]_vars

\* Repeated calls against the validator's frequency memory.
FreqOutcomes ==
  {[kind |-> "ok", action |-> "BUY", confidence |-> 90],
   [kind |-> "error", action |-> "HOLD", confidence |-> 0]}

InitFreq == InitWith({75}, InitRegistries({80}, {20}), {NoVoteInput})

NextFreq ==
  \/ Start({})
  \/ \E c \in SoloCalls, symbol \in Symbols : CallStart(c, symbol, MaxFreqCalls)
  \/ \E c \in SoloCalls : CallFinish(c, FreqOutcomes)
  \/ \E c \in SoloCalls : CallReturn(c)
  \/ \E d \in {30, 60} : Tick(d)

SpecFreq == InitFreq /\ [][NextFreq]_vars

\* The hot-swap controller and the performance tracker beside one call.
SwapOutcomes ==
  {[kind |-> "ok", action |-> "BUY", confidence |-> 90],
   [kind |-> "error", action |-> "HOLD", confidence |-> 0]}

InitSwap == InitWith({75}, InitRegistries({30, 80}, {70}), {NoVoteInput})

NextSwap ==
  \/ Start(RowIds)
  \/ \E c \in SoloCalls : CallStart(c, "EURUSD", MaxSwapCalls)
  \/ \E c \in SoloCalls : CallFinish(c, SwapOutcomes)
  \/ \E c \in SoloCalls : CallReturn(c)
  \/ UpdatePerformanceScores
  \/ HotswapCheck
  \/ HotswapIter
  \/ HotswapLoad
  \/ \E n \in Names, p \in SwitchPaths : SwitchModel(n, p, p)
  \/ Tick(FreshnessWindow)

SpecSwap == InitSwap /\ [][NextSwap]_vars

\* The hot-swap controller beside the performance tracker, two agents due.
InitPair == InitWith({75}, PairRegistries, {NoVoteInput})

NextPair ==
  \/ Start({})
  \/ UpdatePerformanceScores
  \/ HotswapCheck
  \/ HotswapIter
  \/ HotswapLoad
  \/ Tick(FreshnessWindow)

SpecPair == InitPair /\ [][NextPair]_vars

\* One Agent object, loaded and asked for predictions directly.
InitAgent == InitWith({75}, InitRegistries({80}, {20}), {NoVoteInput})

NextAgent ==
  \/ AgentLoadModel
  \/ AgentPredict

SpecAgent == InitAgent /\ [][NextAgent]_vars

\* The communication manager and its two bridges.
InitComm == InitWith({75}, InitRegistries({80}, {20}), {NoVoteInput})

NextComm ==
  \/ CommStart
  \/ CommStop
  \/ \E b \in Bridges : BridgeStop(b)
  \/ \E p \in Peers : ClientConnect(p)
  \/ \E p \in Peers : ClientDisconnect(p)
  \/ \E e \in BOOLEAN : SetFailover(e)
  \/ SendStart
  \/ SendRetry
  \/ SendReturn
  \/ \E m \in MonitorIds : MonitorIter(m)
  \/ CommTick

SpecComm == InitComm /\ [][NextComm]_vars

\* The health monitor alone with the bridges' lifecycle: no send_signal, so
\* active_bridge changes only in monitor iterations.
InitMonitor == InitWith({75}, InitRegistries({80}, {20}), {NoVoteInput})

NextMonitor ==
  \/ CommStart
  \/ CommStop
  \/ \E b \in Bridges : BridgeStop(b)
  \/ \E e \in BOOLEAN : SetFailover(e)
  \/ \E m \in MonitorIds : MonitorIter(m)
  \/ CommTick

SpecMonitor == InitMonitor /\ [][NextMonitor]_vars

\* validate_signal called directly.
ValidatorGaps == {30, 60, DaySeconds + 30}

\* A history the validator holds after `n` accepted signals without a symbol
\* key, one per second up to the start of the run.
PrefilledHistory(n) ==
  [i \in 1..n |-> [symbol |-> "UNKNOWN", action |-> "BUY", confidence |-> Frac(90, 1),
                   timestamp |-> StartTime - n + i - 1, call_symbol |-> "EURUSD"]]

InitValidator == InitWith({75}, InitRegistries({80}, {20}), {NoVoteInput})

NextValidator ==
  \E signal \in ValidatorSignals, d \in ValidatorGaps :
    ValidateCall(IF signal.symbol = Absent THEN "EURUSD" ELSE signal.symbol, signal, d)

SpecValidator == InitValidator /\ [][NextValidator]_vars

\* validate_signal called directly, from an empty and from a nearly full
\* history.
HistorySignals ==
  {signal \in ValidatorSignals :
     signal.action = "BUY" /\ (signal.symbol = Absent \/ signal.symbol = "EURUSD")}

InitHistory ==
  /\ InitCore({75}, InitRegistries({80}, {20}), {NoVoteInput})
  /\ idem = NoIdem
  /\ recent_signals \in {<<>>, PrefilledHistory(HistoryPrefill)}

NextHistory ==
  \E signal \in HistorySignals, d \in {30, 60} : ValidateCall("EURUSD", signal, d)

SpecHistory == InitHistory /\ [][NextHistory]_vars

\* Two get_ensemble_signal calls that may overlap at the gather.
InitConc == InitWith({75}, InitRegistries({80}, {20}), {NoVoteInput})

NextConc ==
  \/ Start({})
  \/ \E c \in CallIds, symbol \in Symbols : CallStart(c, symbol, MaxCalls)
  \/ \E c \in CallIds : CallFinish(c, FreqOutcomes)
  \/ \E c \in CallIds : CallReturn(c)
  \/ \E d \in {30, 60} : Tick(d)

SpecConc == InitConc /\ [][NextConc]_vars

\* One call with its prediction tasks ending one by one.
GatherOutcomes ==
  {[kind |-> "ok", action |-> "BUY", confidence |-> 90],
   [kind |-> "ok", action |-> "SELL", confidence |-> 60],
   [kind |-> "error", action |-> "HOLD", confidence |-> 0]}

InitGather == InitWith({75}, InitRegistries({80}, {20}), {NoVoteInput})

NextGather ==
  \/ Start({})
  \/ \E c \in SoloCalls, symbol \in Symbols : CallStart(c, symbol, MaxCalls)
  \/ \E c \in SoloCalls, i \in 1..Len(NameOrder), outcome \in GatherOutcomes :
       PredictDone(c, i, outcome)
  \/ \E c \in SoloCalls : CallFinishGathered(c)
  \/ \E c \in SoloCalls : CallReturn(c)

SpecGather == InitGather /\ [][NextGather]_vars

\* The life cycle of the orchestrator and of the communication manager with
\* their background tasks.  Timers expire and tasks that can run do run.
\* One agent below the swap threshold with one better inactive entry.
LifeRegistries ==
  {<<Row("technical", 1, 1, 30, "active", 0),
     Row("technical", 2, 2, 65, "inactive", 0),
     Row("sentiment", 1, 1, 50, "inactive", 0),
     Row("sentiment", 2, 2, 60, "inactive", 0)>>}

\* No trade was closed in the last 24 hours.
LifePerformanceData == {d \in PerformanceData : d = <<>>}

InitLife == InitWith({75}, LifeRegistries, {NoVoteInput})

\* A swap is begun only while an agent id is left for the new Agent, and
\* start() leaves that id to a swap that has begun.
HotswapIterBounded ==
  /\ HotswapIter
  /\ hs'.pc = "loading" => nextAgentId <= MaxAgentIds

StartBounded ==
  /\ Start(RowIds)
  /\ hs.pc = "loading" => nextAgentId' <= MaxAgentIds

NextLife ==
  \/ StartBounded
  \/ Stop
  \/ ScoreLoopIter(LifePerformanceData)
  \/ ScoreLoopExit
  \/ HotswapLoopIter
  \/ HotswapIterBounded
  \/ HotswapLoad
  \/ HotswapLoopExit
  \/ CommStart
  \/ CommStop
  \/ \E m \in MonitorIds : MonitorIter(m)
  \/ CommTick
  \/ HeartbeatClosed
  \/ HeartbeatWake

LifeFairness ==
  /\ WF_vars(ScoreLoopExit)
  /\ WF_vars(HotswapLoopExit)
  /\ WF_vars(HotswapIterBounded)
  /\ WF_vars(HotswapLoad)
  /\ \A m \in MonitorIds : WF_vars(MonitorIter(m))
  /\ WF_vars(CommTick)
  /\ WF_vars(HeartbeatClosed)
  /\ WF_vars(HeartbeatWake)

SpecLife == InitLife /\ [][NextLife]_vars /\ LifeFairness

\* The performance tracker on its own: one scoring run over one fetched row.
ScoreStats ==
  [win_rate : {0, 50, 100}, avg_pnl : {-500, -100, 0, 100, 200},
   trade_count : {MinTrades - 1, MinTrades}]

ScoreData == {<<>>} \cup {<<[agent_name |-> n, stat |-> x]>> : n \in Names, x \in ScoreStats}

InitScore == InitWith({75}, PairRegistries, {NoVoteInput})

NextScore ==
  \/ Start(RowIds)
  \/ UpdatePerformanceScoresWith(ScoreData)
  \/ Tick(FreshnessWindow)

SpecScore == InitScore /\ [][NextScore]_vars

\* The ensemble engine with failing predictions, over the whole range of the
\* configured threshold.
UnitThresholds == {0, 75, Unit}

FailOutcomes ==
  {o \in PredictOutcomes : o.kind = "error" \/ (o.action = "BUY" /\ o.confidence = 90)}

InitFail == InitWith(UnitThresholds, InitRegistries({30, 80}, {20}), {NoVoteInput})

NextFail ==
  \/ Start({})
  \/ \E c \in SoloCalls, symbol \in Symbols : CallStart(c, symbol, MaxCalls)
  \/ \E c \in SoloCalls : CallFinish(c, FailOutcomes)
  \/ \E c \in SoloCalls : CallReturn(c)

SpecFail == InitFail /\ [][NextFail]_vars

\* The hot-swap controller run again and again with no scoring run between:
\* one agent far below the swap threshold with two inactive entries, both
\* better and both below the threshold too.
ChainRegistries ==
  {<<Row("technical", 1, 1, 20, "active", 0),
     Row("technical", 2, 2, 30, "inactive", 0),
     Row("technical", 3, 3, 40, "inactive", 0),
     Row("sentiment", 1, 1, 50, "active", 0)>>}

InitChain == InitWith({75}, ChainRegistries, {NoVoteInput})

NextChain ==
  \/ Start({})
  \/ HotswapCheck
  \/ HotswapIter
  \/ HotswapLoad
  \/ \E n \in Names, p \in SwitchPaths : SwitchModel(n, p, p)
  \/ Tick(FreshnessWindow)

SpecChain == InitChain /\ [][NextChain]_vars

\* The heartbeat channel of one ZMQ bridge.
InitHeartbeat == InitWith({75}, InitRegistries({80}, {20}), {NoVoteInput})

NextHeartbeat ==
  \/ ZmqBridgeStart
  \/ BridgeStop("zmq")
  \/ \E msg \in HeartbeatMessages : HeartbeatHandle(msg)
  \/ HeartbeatClosed
  \/ HeartbeatWake
  \/ \E d \in {30, 60} : Tick(d)

SpecHeartbeat == InitHeartbeat /\ [][NextHeartbeat]_vars

\* The risk agent serving alone, across the start of the trading hours.
IdemRegistries ==
  {<<Row("risk_assessment", 1, 1, 80, "active", 0),
     Row("risk_assessment", 2, 2, 65, "inactive", 0),
     Row("technical", 1, 1, 50, "inactive", 0),
     Row("sentiment", 1, 1, 50, "inactive", 0)>>}

InitIdem ==
  /\ InitCore({75}, IdemRegistries, {NoVoteInput})
  /\ idem \in [model : RiskModels, finished : {<<>>}]
  /\ recent_signals = <<>>

NextIdem ==
  \/ Start({})
  \/ \E c \in SoloCalls, symbol \in Symbols : CallStart(c, symbol, MaxCalls)
  \/ \E c \in SoloCalls : CallFinishRisk(c)
  \/ \E c \in SoloCalls : CallReturn(c)
  \/ \E d \in {60, 8 * HourSeconds} : Tick(d)

SpecIdem == InitIdem /\ [][NextIdem]_vars

\* _weighted_vote applied to every input of VoteInputs.
InitVote == InitWith({75}, InitRegistries({80}, {20}), VoteInputs)

NextVote == ApplyVote

SpecVote == InitVote /\ [][NextVote]_vars

TypeOK ==
  /\ confidence_threshold \in ThresholdValues
  /\ \A c \in CallIds : calls[c].pc \in {"idle", "gather", "done", "raised"}
  /\ hs.pc \in {"idle", "iter", "loading"}

\* ====================================================================== claims
Returned(c) == calls[c].pc = "done"
BelowThreshold(conf) == conf.num < confidence_threshold * conf.den

\* C1: every signal returned by get_ensemble_signal whose confidence is below
\* the configured threshold has action HOLD.
C1_ConfidenceGate ==
  \A c \in CallIds :
    Returned(c) /\ BelowThreshold(calls[c].ret.confidence) => calls[c].ret.action = "HOLD"

\* A vote for BUY or SELL whose mean confidence is below the threshold.
C1_Witness ==
  \E c \in CallIds :
    /\ Returned(c)
    /\ calls[c].ret.kind = "voted"
    /\ calls[c].ret.vote_action # "HOLD"
    /\ BelowThreshold(calls[c].ret.confidence)
    /\ calls[c].ret.confidence.num > 0

\* C11: a get_ensemble_signal call made while the live agent map is empty
\* returns HOLD with confidence 0, a reason containing "No active agents" and
\* all-zero votes, hands no prediction to any agent, and leaves the
\* validator's history and the audit sink unchanged.
C11_NoActiveAgentsHold ==
  [][\A c \in CallIds :
       (calls[c].pc = "idle" /\ calls'[c].pc # "idle" /\ LiveNames(active_agents) = {})
         => /\ calls'[c].pc = "done"
            /\ calls'[c].ret.action = "HOLD"
            /\ calls'[c].ret.confidence = Frac(0, 1)
            /\ calls'[c].ret.reason = <<"No active agents available">>
            /\ \A a \in Actions : calls'[c].ret.votes.num[a] = 0
            /\ calls'[c].tasks = <<>>
            /\ recent_signals' = recent_signals
            /\ audit' = audit]_vars

\* A call answered on an empty live agent map.
C11_Witness ==
  \E c \in CallIds :
    Returned(c) /\ calls[c].ret.kind = "no_agents" /\ LiveNames(active_agents) = {}

\* C12: one run of _check_model_performance on an active entry that is below
\* 0.45 and fresh, with a strictly better inactive entry of the same name and
\* no database error, starts the swap; the swap makes the backup's entry
\* active and the previously active entry inactive, and once the backup has
\* loaded the live agent map serves the backup's model path and version under
\* the same name.
C12_HotswapServesBackup ==
  [][/\ (hs.pc = "iter" /\ hs'.last_db = "ok" /\ hs' # hs
          /\ Backups(registry, Head(hs.todo).agent_name,
                     Head(hs.todo).performance_score) # {})
          => hs'.pc = "loading"
     /\ (hs.pc = "iter" /\ hs'.pc = "loading")
          => /\ hs'.agent_name = Head(hs.todo).agent_name
             /\ hs'.backup = registry[hs'.backup_id]
             /\ registry[hs'.backup_id].agent_name = hs'.agent_name
             /\ registry[hs'.backup_id].performance_score
                  > Head(hs.todo).performance_score
             /\ registry'[hs'.backup_id].status = "active"
             /\ \A r \in hs'.old_rows : registry'[r].status = "inactive"
     /\ (hs.pc = "loading" /\ hs'.pc # "loading" /\ hs'.last_load = "ok")
          => /\ active_agents'[hs.agent_name].model_path = hs.backup.model_path
             /\ active_agents'[hs.agent_name].version = hs.backup.version]_vars

\* The scenario: technical at 0.30, updated 10 minutes ago, swapped to its
\* backup at 0.65 (version 2), whose entry is the only active one.
C12_Witness ==
  /\ hs.last_load = "ok"
  /\ hs.last_name = "technical"
  /\ active_agents["technical"].version = 2
  /\ active_agents["technical"].model_path = 2
  /\ registry[1].performance_score = 30
  /\ registry[1].updated_at = now - 600
  /\ registry[1].status = "inactive"
  /\ registry[2].performance_score = 65
  /\ registry[2].status = "active"
  /\ ActiveRows(registry, "technical") = {2}

\* C13 as stated: whenever _check_model_performance swaps an agent, the
\* agent's active registry entry has, at that moment, a weight below 0.45 that
\* was updated within the last hour, and the candidate's weight is strictly
\* higher than that weight.
C13_SwapOnlyFreshUnderperformer ==
  [][(hs.pc = "iter" /\ hs'.pc = "loading")
       => \A r \in ActiveRows(registry, hs'.agent_name) :
            /\ registry[r].performance_score < SwapThreshold
            /\ registry[r].updated_at > now - FreshnessWindow
            /\ registry[hs'.backup_id].performance_score
                 > registry[r].performance_score]_vars

\* C18 as stated: when a persistence operation of _update_performance_scores
\* raises (the SELECT, an UPDATE or the commit), no in-memory Agent weight
\* differs from its value before the call.
C18_FailedScoreRunKeepsWeights ==
  [][(scoreRuns' = scoreRuns + 1 /\ score_run' = "failed")
       => \A n \in Names :
            active_agents'[n].performance_score = active_agents[n].performance_score]_vars

\* C14 as stated: Agent.predict never propagates an exception; every call
\* returns a decision, and a call in which something failed returns HOLD
\* with confidence 0 and a reason starting with "Error:".
C14_PredictNeverRaises ==
  \A i \in 1..Len(agent_obj.results) :
    /\ agent_obj.results[i].kind = "returned"
    /\ agent_obj.results[i].reason = "Error:"
         => agent_obj.results[i].action = "HOLD" /\ agent_obj.results[i].confidence = 0

\* C21 as stated: the reply sent for a heartbeat request carries the server
\* time and the average of the retained latency samples.
C21_HeartbeatReplyCarriesTimeAndLatency ==
  hb.reply.request \in {"timed", "untimed"} =>
    /\ hb.reply.sent
    /\ "server_time" \in DOMAIN hb.reply.wire
    /\ hb.reply.wire.server_time = hb.reply.response.server_time
    /\ "avg_latency_ms" \in DOMAIN hb.reply.wire
    /\ FracEq(hb.reply.wire.avg_latency_ms, AvgLatency(hb.latency_samples))

\* C22 as stated: two finished get_ensemble_signal calls with the same
\* arguments, run from the same agent state and the same validator history,
\* returned the same action and the same confidence.
C22_SameInputsSameSignal ==
  \A i, j \in DOMAIN idem.finished :
    LET a == idem.finished[i]
        b == idem.finished[j]
    IN a.symbol = b.symbol /\ a.agents = b.agents /\ a.history = b.history
         /\ a.threshold = b.threshold
       => a.action = b.action /\ FracEq(a.confidence, b.confidence)

\* C24 as stated: when the confidence gate fired for a returned vote, the
\* reason carries the confidence gate's fragment and no validation-failure
\* fragment.
C24_ReasonNamesFirstFailedGate ==
  \A c \in CallIds :
    (Returned(c) /\ calls[c].ret.kind = "voted" /\ calls[c].ret.below_threshold) =>
      /\ calls[c].ret.action = "HOLD"
      /\ \E i \in DOMAIN calls[c].ret.reason : calls[c].ret.reason[i] = BelowFragment
      /\ \A i \in DOMAIN calls[c].ret.reason : calls[c].ret.reason[i] # FailedFragment

\* A step in which some health monitor task ran one pass of its loop.
MonitorStep == \E m \in MonitorIds : monitors[m] = 0 /\ monitors'[m] # 0

\* C25: a monitor iteration changes active_bridge only when the active
\* bridge is unhealthy and the other bridge is healthy, and then to the other
\* bridge; with the active bridge healthy, or both bridges unhealthy, it
\* leaves active_bridge unchanged.
C25_MonitorSwitchesOnlyToHealthyOther ==
  [][MonitorStep =>
       LET active == comm.active_bridge
           active_healthy == Healthy(active, zmq, ws)
           other_healthy == Healthy(Other(active), zmq, ws)
       IN /\ comm'.active_bridge # active =>
               ~active_healthy /\ other_healthy /\ comm'.active_bridge = Other(active)
          /\ (active_healthy \/ (~active_healthy /\ ~other_healthy)) =>
               comm'.active_bridge = active]_vars

\* A monitor has moved the manager from the stopped ZMQ bridge to the
\* healthy WebSocket bridge.
C25_Witness ==
  /\ comm.active_bridge = "websocket"
  /\ ~ZmqHealthy(zmq) /\ WsHealthy(ws)
  /\ send = SendIdle

\* A step that is one direct validate_signal call.
ValidateStep == val'.n = val.n + 1

\* The record _record_signal appends for the call just made.
ValidatedRecord ==
  [symbol |-> IF val'.signal.symbol = Absent THEN "UNKNOWN" ELSE val'.signal.symbol,
   action |-> val'.signal.action, confidence |-> val'.signal.confidence,
   timestamp |-> now', call_symbol |-> val'.symbol]

\* C26 as stated: a signal that passes the structure and confidence gates is
\* rejected when 3 or more of the last 20 recorded signals have its symbol or
\* when fewer than 60 seconds have passed since the last recorded signal for
\* its symbol, and is otherwise accepted and recorded.
C26_FrequencyGate ==
  [][(/\ ValidateStep
      /\ val'.signal.action \in Actions
      /\ val'.signal.confidence.num >= confidence_threshold * val'.signal.confidence.den)
     => LET n == Len(recent_signals)
            same == {i \in 1..n : recent_signals[i].symbol = val'.signal.symbol}
            in_window == {i \in same : i > n - FrequencyWindow}
            last == CHOOSE i \in same : \A j \in same : j <= i
            too_many == Cardinality(in_window) >= MaxSymbolSignals
            too_soon == same # {} /\ now' - recent_signals[last].timestamp < MinSignalGap
        IN IF too_many \/ too_soon
           THEN ~val'.ok /\ recent_signals' = recent_signals
           ELSE /\ val'.ok
                /\ recent_signals'[Len(recent_signals')] = ValidatedRecord]_vars

\* C27: the validator's history never holds more than max_signal_history
\* records; an accepted signal is appended at the end, behind the records
\* validated before it, and when the history is full its oldest record is the
\* one dropped; a rejected signal leaves the history unchanged.
C27_HistoryBoundedOrderedFifo ==
  /\ [](Len(recent_signals) <= max_signal_history)
  /\ [][ValidateStep =>
          IF val'.ok
          THEN recent_signals' =
                 (IF Len(recent_signals) = max_signal_history
                  THEN Tail(recent_signals) ELSE recent_signals) \o <<ValidatedRecord>>
          ELSE recent_signals' = recent_signals]_vars

\* The 101st accepted signal has pushed out the oldest record.
C27_Witness ==
  /\ val.ok
  /\ Len(recent_signals) = max_signal_history
  /\ recent_signals[1] = PrefilledHistory(HistoryPrefill)[2]
  /\ recent_signals[max_signal_history].timestamp = now

\* A step in which call c comes back from the gather and returns a vote.
VotedStep(c) ==
  calls[c].pc = "gather" /\ calls'[c].pc = "done" /\ calls'[c].ret.kind = "voted"

C29_VoteAfterAllPredictions ==
  [][\A c \in SoloCalls :
       /\ (calls[c].pc = "gather" /\ calls'[c].pc # "gather") =>
            /\ DOMAIN gathered[calls[c].n] = 1..Len(calls[c].tasks)
            /\ VotedStep(c) =>
                 LET used == calls'[c].ret.used IN
                 /\ Len(used) = Len(calls[c].tasks)
                 /\ \A i \in 1..Len(used) :
                      LET o == gathered[calls[c].n][i] IN
                      /\ used[i].agent = calls[c].tasks[i].agent
                      /\ used[i].action = (IF o.kind = "ok" THEN o.action ELSE "HOLD")
                      /\ used[i].confidence = (IF o.kind = "ok" THEN o.confidence ELSE 0)
       /\ (calls[c].pc = "done" /\ calls'[c].pc = "done") =>
            /\ calls'[c].ret = calls[c].ret
            /\ gathered'[calls[c].n] = gathered[calls[c].n]]_vars

\* A returned vote over two predictions that ended with different decisions.
C29_Witness ==
  \E c \in SoloCalls :
    /\ Returned(c)
    /\ calls[c].ret.kind = "voted"
    /\ Len(calls[c].tasks) = 2
    /\ Len(calls[c].ret.used) = 2
    /\ calls[c].ret.used[1].action # calls[c].ret.used[2].action
    /\ DOMAIN gathered[calls[c].n] = {1, 2}

\* Both running flags are clear.
Stopped == ~running /\ ~comm.running

\* No scoring, hot-swap, health monitor or heartbeat task is left.
LoopsExited ==
  /\ loops.score = 0 /\ loops.hotswap = 0
  /\ \A m \in MonitorIds : monitors[m] = Dead
  /\ hb.task \in {"none", "dead"}

\* No socket, server or client connection of a bridge is open.
HandlesClosed ==
  /\ zmq.publisher # "open" /\ zmq.responder # "open"
  /\ ws.server # "open" /\ ws.clients = {}

\* C30: once the running flags of the orchestrator and of the communication
\* manager are clear, then (unless one of them is started again first) every
\* background loop has eventually exited and the bridges' handles are closed.
C30_LoopsExitAfterStop ==
  Stopped ~> ((LoopsExited /\ HandlesClosed) \/ ~Stopped)

\* Both were started in full, then stopped, and every task has ended.
C30_Witness ==
  /\ Stopped /\ LoopsExited /\ HandlesClosed
  /\ loops.exited = {"score", "hotswap"}
  /\ hb.task = "dead"
  /\ zmq.publisher = "closed" /\ zmq.responder = "closed" /\ ws.server = "closed"
  /\ ws.on_client_disconnected = "set"

\* A scoring run that committed.
ScoredStep == scoreRuns' = scoreRuns + 1 /\ score_run' = "ok"

\* score = clip(0.7*winRate + 0.3*clip(avgPnl/100, -1, 1), 0, 1), in hundredths
SpecifiedScore(win_rate, avg_pnl) ==
  Max(0, Min(Unit, (7 * win_rate + 3 * Max(-100, Min(avg_pnl, 100))) \div 10))

\* C31 as stated: for an agent with at least 10 trailing-24h samples the score
\* written by a scoring run, to the registry's active entry and to the served
\* agent, is clip(0.7*winRate + 0.3*clip(avgPnl/100, -1, 1), 0, 1), also for
\* an avgPnl below -100.
C31_ScoreIsClippedCombination ==
  [][ScoredStep =>
       \A i \in DOMAIN scored' :
         LET row == scored'[i]
             score == SpecifiedScore(row.stat.win_rate, row.stat.avg_pnl)
         IN row.stat.trade_count >= MinTrades =>
              /\ \A r \in ActiveRows(registry, row.agent_name) :
                   registry'[r].performance_score = score
              /\ active_agents[row.agent_name].id # NoAgent.id =>
                   active_agents'[row.agent_name].performance_score = score]_vars

\* A confidence in [0,1].
UnitFrac(conf) == 0 <= conf.num /\ conf.num <= Unit * conf.den

\* C32 as stated: get_ensemble_signal never raises on what the models put
\* out, every signal it returns has an action in {BUY, SELL, HOLD} and a
\* confidence in [0,1], and so has every agent decision it counted.
C32_DecisionsInDomain ==
  \A c \in CallIds :
    /\ calls[c].pc # "raised"
    /\ Returned(c) =>
         /\ calls[c].ret.action \in Actions
         /\ UnitFrac(calls[c].ret.confidence)
         /\ \A i \in DOMAIN calls[c].ret.used :
              /\ calls[c].ret.used[i].action \in Actions
              /\ calls[c].ret.used[i].confidence \in 0..Unit

\* Every prediction of the call degraded to HOLD with confidence 0.
AllPredictionsFailed(c) ==
  /\ calls[c].ret.kind = "voted"
  /\ Len(calls[c].ret.used) = Len(calls[c].tasks)
  /\ \A i \in DOMAIN calls[c].ret.used :
       calls[c].ret.used[i].action = "HOLD" /\ calls[c].ret.used[i].confidence = 0

\* C33 as stated: when every active agent's prediction fails, the signal
\* returned by get_ensemble_signal has action HOLD, whatever threshold in
\* [0,1] is configured.
C33_AllFailedGivesHold ==
  \A c \in CallIds :
    (Returned(c) /\ AllPredictionsFailed(c)) => calls[c].ret.action = "HOLD"

\* C34 as stated: broadcast_signal returns exactly the number of connected
\* peers the send to which succeeded, 0 when the send to every peer failed, and
\* send_signal then counts the WebSocket attempt as failed.
C34_BroadcastCountsSuccessfulSends ==
  \A i \in DOMAIN send.attempts :
    LET a == send.attempts[i] IN
    a.bridge = "websocket" =>
      /\ a.count = Cardinality(a.sent_to \ a.failing)
      /\ (a.sent_to # {} /\ a.sent_to \subseteq a.failing) => (a.count = 0 /\ ~a.ok)

\* C35 as stated: a scoring run changes the weight and updated-at time of
\* active registry entries only, and only of the names it fetched a row for;
\* the inactive candidate entries keep their weights, so a candidate that was
\* better than a freshly lowered active weight is still strictly better.
C35_ScoringTouchesActiveEntryOnly ==
  [][ScoredStep =>
       /\ \A r \in RowIds :
            registry'[r] # registry[r] =>
              /\ registry[r].status = "active"
              /\ \E i \in DOMAIN scored' : scored'[i].agent_name = registry[r].agent_name
       /\ \A a, b \in RowIds :
            (/\ registry[a].agent_name = registry[b].agent_name
             /\ registry[a].status = "active" /\ registry[b].status = "inactive"
             /\ registry'[a].performance_score < registry[a].performance_score
             /\ registry[b].performance_score > registry[a].performance_score)
              => registry'[b].performance_score > registry'[a].performance_score]_vars

\* A _swap_model call for agent name n returns in this step: after its load
\* returned or raised, or after its registry update raised.
SwapAttemptEnds(n) ==
  \/ hs.pc = "loading" /\ hs'.pc # "loading" /\ n = hs.agent_name
  \/ /\ hs.pc = "iter" /\ hs'.pc # "loading" /\ hs' # hs /\ hs'.last_db = "swap_fails"
     /\ n = Head(hs.todo).agent_name

\* C36 as stated: after every _swap_model attempt, successful or failed, the
\* version of the registry's active entry for the name is the version of the
\* Agent the live agent map serves under that name.
C36_RegistryMatchesServedAgent ==
  [][\A n \in Names :
       (SwapAttemptEnds(n) /\ active_agents'[n].id # NoAgent.id)
         => \A r \in ActiveRows(registry', n) :
              registry'[r].version = active_agents'[n].version]_vars

\* C37 as stated: every heartbeat request received on the request/response
\* channel, well-formed or malformed, has been answered with a reply when the
\* handler goes on, and the channel is never left owing a reply.
C37_EveryHeartbeatAnswered ==
  /\ hb.reply.request # "none" => hb.reply.sent
  /\ hb.rep # "must_send"

\* C38 as stated: whatever start() and stop() calls are made, at most one
\* scoring loop, one hot-swap loop and one health monitor is alive at any time.
C38_OneLoopOfEachKind ==
  /\ loops.score <= 1
  /\ loops.hotswap <= 1
  /\ Cardinality({m \in MonitorIds : monitors[m] # Dead}) <= 1

\* C39 as stated: the time rule of the frequency check rejects a signal only
\* when fewer than 60 seconds in total have passed since the last recorded
\* signal for its symbol: a signal that passes the other gates and comes 60
\* seconds or more after that record, whole days included, is accepted.
C39_TimeRuleUsesTotalElapsed ==
  [][(/\ ValidateStep
      /\ val'.signal.action \in Actions
      /\ val'.signal.confidence.num >= confidence_threshold * val'.signal.confidence.den)
     => LET n == Len(recent_signals)
            same == {i \in 1..n : recent_signals[i].symbol = val'.signal.symbol}
            in_window == {i \in same : i > n - FrequencyWindow}
            last == CHOOSE i \in same : \A j \in same : j <= i
        IN (/\ Cardinality(in_window) < MaxSymbolSignals
            /\ same # {}
            /\ now' - recent_signals[last].timestamp >= MinSignalGap)
             => val'.ok]_vars

\* A _swap_model call for agent name n commits its registry update in this step.
SwapStep(n) == hs.pc = "iter" /\ hs'.pc = "loading" /\ n = hs'.agent_name

\* The inactive entries of the name that the backup query can still select:
\* those scoring above an active entry of the name.
Selectable(reg, n) ==
  {r \in RowIds : /\ reg[r].agent_name = n /\ reg[r].status = "inactive"
                   /\ \E a \in ActiveRows(reg, n) :
                        reg[r].performance_score > reg[a].performance_score}

\* C40: with no scoring run in between, every swap of _check_model_performance
\* gives the name an active entry of strictly greater weight than the one it
\* replaces, the replaced entry can not be selected again, and the number of
\* entries that can still be selected goes down: only finitely many swaps
\* happen for a name and none returns to a replaced entry.
C40_SwapsStrictlyIncreaseWeight ==
  [][\A n \in Names :
       SwapStep(n) =>
         /\ \A old \in ActiveRows(registry, n), new \in ActiveRows(registry', n) :
              registry'[new].performance_score > registry[old].performance_score
         /\ ActiveRows(registry, n) \cap Selectable(registry', n) = {}
         /\ Cardinality(Selectable(registry', n)) < Cardinality(Selectable(registry, n))]_vars

\* A second run after a swap: entry 3 (0.40) has replaced entry 1 (0.20), is
\* still below the threshold and was fetched as an underperformer again.
C40_Witness ==
  /\ hs.pc = "iter"
  /\ Head(hs.todo) = [agent_name |-> "technical", performance_score |-> 40]
  /\ hs.last_name = "technical"
  /\ registry[3].status = "active"
  /\ registry[1].status = "inactive" /\ registry[2].status = "inactive"
  /\ registry[1].performance_score = 20 /\ registry[2].performance_score = 30

\* C7 as stated: with 3 signals already recorded for the call's symbol among
\* the last 20 recorded, a further get_ensemble_signal call for that symbol is
\* rejected by the validator and returned with action HOLD.
C7_FourthSignalRejected ==
  \A c \in CallIds :
    Returned(c) /\ calls[c].ret.kind = "voted" /\ calls[c].ret.prior >= MaxSymbolSignals
      => calls[c].ret.action = "HOLD" /\ calls[c].ret.failed_validation

\* C2 as stated: with failover enabled a finished send_signal tried the bridge
\* that was active first and, when that failed, flipped active_bridge and
\* tried the other bridge exactly once; it returned false only if no attempt
\* delivered the signal and true only if some attempt delivered it.
C2_SendSignalFailoverAndTruthfulReturn ==
  (send.pc = "done" /\ send.failover) =>
    LET n == Len(send.attempts)
        Delivered == \E i \in 1..n : send.attempts[i].delivered > 0
    IN /\ send.attempts[1].bridge = send.entry_active
       /\ n = IF send.attempts[1].delivered > 0 THEN 1 ELSE 2
       /\ n = 2 => send.attempts[2].bridge = Other(send.entry_active)
       /\ send.ret <=> Delivered

\* C3 as stated: while the manager is running, the active bridge unhealthy and
\* the other bridge healthy, no more than one health_check_interval passes
\* before active_bridge is the other bridge.
C3_FailoverWithinOneInterval == cond_age <= IntervalTicks

C5_FailedLoadKeepsPreviousAgent ==
  [][/\ (hs.pc = "loading" /\ hs'.pc # "loading" /\ hs'.last_load = "failed")
          => active_agents' = active_agents
     /\ \A n \in Names :
          active_agents[n].id # NoAgent.id => active_agents'[n].id # NoAgent.id]_vars

\* A candidate failed to load and the name is still served.
C5_Witness ==
  /\ hs.last_load = "failed"
  /\ active_agents[hs.last_name].id # NoAgent.id
  /\ ActiveRows(registry, hs.last_name) # {}
  /\ \A r \in ActiveRows(registry, hs.last_name) :
       registry[r].version # active_agents[hs.last_name].version

\* C6 as stated: every decision of a returned vote is weighted with the weight
\* of the Agent object that produced the decision.
C6_WeightOfProducingAgent ==
  \A c \in CallIds :
    Returned(c) /\ calls[c].ret.kind = "voted" =>
      \A i \in 1..Len(calls[c].ret.used) :
        calls[c].ret.used[i].weight_of = calls[c].ret.used[i].by

RECURSIVE SumOver(_, _)
SumOver(S, f) ==
  IF S = {} THEN 0
  ELSE LET x == CHOOSE y \in S : TRUE IN f[x] + SumOver(S \ {x}, f)

\* The decisions of vote_in that take part in the vote, their weights and the
\* sums the specification states.
Counted == {i \in 1..Len(vote_in.results) :
              AgentOf(vote_in.agents, vote_in.results[i].agent).id # NoAgent.id}
WeightAt(i) == vote_in.agents[vote_in.results[i].agent].performance_score
ConfAt(i) == vote_in.results[i].confidence
WeightedSumFor(a) ==
  SumOver({i \in Counted : vote_in.results[i].action = a},
          [i \in Counted |-> WeightAt(i) * ConfAt(i)])
TotalWeight == SumOver(Counted, [i \in Counted |-> WeightAt(i)])
VoteOf(a) == Frac(vote_out.votes.num[a], vote_out.votes.den)
VoteNumSum == SumOver(Actions, vote_out.votes.num)

\* C15 as stated: the votes and the confidence of a returned vote equal those
\* computed from the agents whose prediction succeeded alone; a failed
\* prediction contributes to no vote, not to the total weight and not to the
\* confidence mean.
C15_FailedPredictionsExcluded ==
  \A c \in CallIds :
    (Returned(c) /\ calls[c].ret.kind = "voted") =>
      LET used == calls[c].ret.used
          Good == {i \in 1..Len(used) : ~used[i].error}
          weight_sum == SumOver(Good, [i \in Good |-> used[i].weight])
          conf_sum == SumOver(Good, [i \in Good |-> used[i].confidence])
          vote_sum(a) == LET S == {i \in Good : used[i].action = a}
                         IN SumOver(S, [i \in S |-> used[i].weight * used[i].confidence])
      IN /\ \A a \in Actions :
              FracEq(Frac(calls[c].ret.votes.num[a], calls[c].ret.votes.den),
                     Frac(vote_sum(a), IF weight_sum > 0 THEN weight_sum ELSE Unit))
         /\ Good # {} =>
              FracEq(calls[c].ret.confidence, Frac(conf_sum, Cardinality(Good)))

\* C16: in a returned vote the validator's fragment comes after the
\* confidence gate's fragment in the reason; a validator rejection leaves the
\* action HOLD and its fragment last in the reason, while votes and
\* confidence are those computed by the vote.
C16_ValidatorAfterConfidenceGate ==
  \A c \in CallIds :
    (Returned(c) /\ calls[c].ret.kind = "voted") =>
      LET ret == calls[c].ret
          used == ret.used
          All == 1..Len(used)
          n == Len(ret.reason)
          vote_sum(a) == LET S == {i \in All : used[i].action = a}
                         IN SumOver(S, [i \in S |-> used[i].weight * used[i].confidence])
          weight_sum == SumOver(All, [i \in All |-> used[i].weight])
          conf_sum == SumOver(All, [i \in All |-> used[i].confidence])
      IN /\ ret.below_threshold <=> BelowThreshold(ret.confidence)
         /\ ret.below_threshold <=> (\E i \in 1..n : ret.reason[i] = BelowFragment)
         /\ ret.failed_validation <=> (\E i \in 1..n : ret.reason[i] = FailedFragment)
         /\ \A i, j \in 1..n :
              (ret.reason[i] = BelowFragment /\ ret.reason[j] = FailedFragment) => i < j
         /\ ret.failed_validation =>
              /\ ret.action = "HOLD"
              /\ ret.reason[n] = FailedFragment
              /\ SubSeq(ret.reason, 1, Len(used)) = VoteReason(used)
         /\ \A a \in Actions : ret.votes.num[a] = vote_sum(a)
         /\ ret.votes.den = (IF weight_sum > 0 THEN weight_sum ELSE Unit)
         /\ All # {} => FracEq(ret.confidence, Frac(conf_sum, Len(used)))

\* A vote for BUY or SELL that passed through both gates and was rejected
\* by each.
C16_Witness ==
  \E c \in CallIds :
    /\ Returned(c)
    /\ calls[c].ret.kind = "voted"
    /\ calls[c].ret.vote_action # "HOLD"
    /\ calls[c].ret.failed_validation
    /\ calls[c].ret.action = "HOLD"
    /\ calls[c].ret.confidence.num > 0
    /\ \E a \in Actions : calls[c].ret.votes.num[a] > 0

\* C17 as stated: every get_ensemble_signal call that reaches the vote has,
\* when it returns, appended the resulting signal under the symbol of the
\* call to the validator's history (at most max_signal_history entries) and
\* written one row to the audit sink.
C17_SignalRecordedAndAudited ==
  [][\A c \in CallIds :
       (calls[c].pc = "gather" /\ calls'[c].pc = "done" /\ calls'[c].ret.kind = "voted")
         => /\ recent_signals' # <<>>
            /\ Len(recent_signals') <= max_signal_history
            /\ Len(recent_signals') = Min(max_signal_history, Len(recent_signals) + 1)
            /\ recent_signals'[Len(recent_signals')].symbol = calls[c].symbol
            /\ recent_signals'[Len(recent_signals')].action = calls'[c].ret.action
            /\ audit' = audit + 1]_vars

\* C19 as stated: after load_active_models every active registry entry whose
\* model loads is in the live agent map, whatever happened to the other
\* entries.
C19_LoadFailureExcludesOnlyThatAgent ==
  [][(~running /\ running' /\ boot'.fetched)
       => \A r \in boot'.loadable :
            /\ active_agents'[registry[r].agent_name].id # NoAgent.id
            /\ active_agents'[registry[r].agent_name].version = registry[r].version]_vars

\* C20: when sends to some peers fail during broadcast_signal, exactly those
\* peers leave the connected-peer set and a disconnect notification is fired
\* for each of them; every peer connected at the start of the broadcast was
\* sent the signal and every other peer is still connected.
C20_FailedPeerAloneRemoved ==
  \A i \in 1..Len(send.attempts) :
    LET a == send.attempts[i] IN
    (a.bridge = "websocket" /\ a.failing # {}) =>
      /\ a.clients_after = a.clients_before \ a.failing
      /\ a.notified = a.failing
      /\ a.sent_to = a.clients_before
      /\ a.delivered = Cardinality(a.clients_before \ a.failing)

\* A broadcast to two peers in which the send to one of them failed.
C20_Witness ==
  \E i \in 1..Len(send.attempts) :
    /\ send.attempts[i].bridge = "websocket"
    /\ Cardinality(send.attempts[i].clients_before) = 2
    /\ Cardinality(send.attempts[i].failing) = 1
    /\ Cardinality(send.attempts[i].clients_after) = 1

\* The actions whose normalized vote is the highest.
TopActions == {a \in Actions : \A b \in Actions : ~FracLess(VoteOf(a), VoteOf(b))}

\* C23 as stated: when two or more actions tie for the highest vote, the
\* winner is the tied action that comes first in the priority HOLD, SELL, BUY.
C23_TieBreakConservative ==
  vote_out # NoRet /\ Cardinality(TopActions) >= 2 =>
    vote_out.action = (IF "HOLD" \in TopActions THEN "HOLD"
                       ELSE IF "SELL" \in TopActions THEN "SELL" ELSE "BUY")

\* C8: for every set of valid decisions, votes[a] is the sum of
\* weight*confidence over the decisions with action a divided by the sum of the
\* weights of all valid decisions when that total is > 0, and the un-normalized
\* sum when the total is 0.
C8_VotesAreNormalizedWeightedSums ==
  vote_out # NoRet =>
    \A a \in Actions :
      IF TotalWeight > 0 THEN FracEq(VoteOf(a), Frac(WeightedSumFor(a), TotalWeight))
      ELSE FracEq(VoteOf(a), Frac(WeightedSumFor(a), Unit))

C8_Witness ==
  /\ vote_out # NoRet
  /\ TotalWeight > 0
  /\ vote_out.votes.num["BUY"] > 0
  /\ vote_out.votes.num["SELL"] > 0
  /\ Cardinality(Counted) = 3

\* C9 as stated: the votes sum to 1.0 (within one hundredth) whenever the
\* total weight of the voting agents is > 0, and are all zero otherwise.
C9_VotesSumToOne ==
  vote_out # NoRet =>
    IF TotalWeight > 0
    THEN /\ VoteNumSum - Unit * vote_out.votes.den <= vote_out.votes.den
         /\ Unit * vote_out.votes.den - VoteNumSum <= vote_out.votes.den
    ELSE \A a \in Actions : vote_out.votes.num[a] = 0

\* C9 amended: with weights and confidences in [0,1] the votes sum to
\* sum(w*c)/sum(w), which is at most 1.0 and equals 1.0 exactly when every
\* decision of positive weight has confidence 1.0, whenever the total weight is
\* > 0; they are all zero otherwise.
C9_VotesSumAtMostOne ==
  vote_out # NoRet =>
    IF TotalWeight > 0
    THEN /\ VoteNumSum <= Unit * vote_out.votes.den
         /\ FracEq(Frac(VoteNumSum, vote_out.votes.den),
                   Frac(SumOver(Counted, [i \in Counted |-> WeightAt(i) * ConfAt(i)]),
                        TotalWeight))
         /\ (VoteNumSum = Unit * vote_out.votes.den) <=>
              (\A i \in Counted : WeightAt(i) > 0 => ConfAt(i) = Unit)
    ELSE \A a \in Actions : vote_out.votes.num[a] = 0

C9_Witness ==
  /\ vote_out # NoRet
  /\ TotalWeight > 0
  /\ VoteNumSum > 0
  /\ VoteNumSum < Unit * vote_out.votes.den

\* Scenario A: A with weight 0.8 says BUY at 0.9, B with weight 0.5 says SELL
\* at 0.6, nobody else votes.
ScenarioA ==
  /\ Len(vote_in.results) = 2
  /\ vote_in.results[1].agent = "A" /\ vote_in.results[1].action = "BUY"
  /\ vote_in.results[1].confidence = 90
  /\ vote_in.results[2].agent = "B" /\ vote_in.results[2].action = "SELL"
  /\ vote_in.results[2].confidence = 60
  /\ vote_in.agents["A"].performance_score = 80
  /\ vote_in.agents["B"].performance_score = 50

\* C10: the action before gating is the argmax of the normalized votes and the
\* confidence is the unweighted arithmetic mean of the valid decisions'
\* confidences; Scenario A gives votes BUY 0.72/1.3, SELL 0.30/1.3, HOLD 0,
\* action BUY and confidence 0.75.
C10_ArgmaxAndMeanConfidence ==
  vote_out # NoRet =>
    /\ \A a \in Actions : ~FracLess(VoteOf(vote_out.action), VoteOf(a))
    /\ FracEq(vote_out.confidence,
              IF Counted = {} THEN Frac(0, 1)
              ELSE Frac(SumOver(Counted, [i \in Counted |-> ConfAt(i)]),
                        Cardinality(Counted)))
    /\ ScenarioA =>
         /\ FracEq(VoteOf("BUY"), Frac(72 * Unit, 130))
         /\ FracEq(VoteOf("SELL"), Frac(30 * Unit, 130))
         /\ FracEq(VoteOf("HOLD"), Frac(0, 1))
         /\ vote_out.action = "BUY"
         /\ FracEq(vote_out.confidence, Frac(75, 1))

C10_Witness == ScenarioA /\ vote_out # NoRet /\ vote_out.action = "BUY"

====
